---------------------------- MODULE Spec2Model ----------------------------
(***************************************************************************)
(* Heart-disease prediction service (Assignment/api_server.py).            *)
(*                                                                         *)
(* The service holds three module-level globals (model, model_name,        *)
(* scaler) and a set of Prometheus metrics.  Every HTTP request runs       *)
(* through PrometheusMiddleware.dispatch and then through FastAPI's body   *)
(* validation and the endpoint function.                                   *)
(*                                                                         *)
(* Conventions                                                             *)
(*   - Python's None is the empty sequence, a held value v is <<v>>.       *)
(*   - Real numbers are fixed point: probabilities and confidences are in  *)
(*     ten-thousandths (1.0 is 10000), decision scores and the oldpeak     *)
(*     field are in tenths (0.5 is 5, 2.3 is 23).                          *)
(*   - Counters and histograms are bags of their label tuples.             *)
(*   - Wall-clock durations are not modelled: a histogram observation of   *)
(*     a duration is recorded by its labels only.                          *)
(***************************************************************************)
EXTENDS Integers, Sequences, FiniteSets, Bags, TLC

VARIABLES
    model,              \* api_server.model: None or <<classifier>>
    model_name,         \* api_server.model_name: None or <<stem>>
    scaler,             \* api_server.scaler: None or <<scaler>>
    request_count,      \* Counter api_requests_total [method, endpoint, status_code]
    request_duration,   \* Histogram api_request_duration_seconds [method, endpoint]
    prediction_count,   \* Counter predictions_total [prediction_result, model_name]
    prediction_latency, \* Histogram prediction_duration_seconds [endpoint]
    confidence_scores,  \* Histogram prediction_confidence_score [prediction_result], with values
    error_count,        \* Counter api_errors_total [error_type, endpoint]
    model_loaded,       \* Gauge model_loaded
    active_requests,    \* Gauge active_requests
    model_info_metric,  \* Info model_info: None or <<labels>>
    started,            \* the startup event has run and the service accepts requests
    served,             \* number of requests dispatched so far
    reloads,            \* number of load_model calls after the startup event
    disk,               \* the files on disk
    df,                 \* the DataFrame the training pipeline is working on
    in_flight,          \* the requests inside the middleware, awaiting call_next
    last                \* the last operation, its input and what it answered

globals == <<model, model_name, scaler>>
telemetry == <<request_count, request_duration, prediction_count, prediction_latency,
               confidence_scores, error_count, model_loaded, active_requests,
               model_info_metric>>
vars == <<model, model_name, scaler, request_count, request_duration, prediction_count,
          prediction_latency, confidence_scores, error_count, model_loaded,
          active_requests, model_info_metric, started, served, reloads, disk, df,
          in_flight, last>>

---------------------------------------------------------------------------
(* Bounds of the exploration *)

\* largest number of rows of a raw DataFrame
MaxRows == 2

\* number of typical rows before the probe row of a frame under validation
TypicalRows == 3

\* number of requests that arrive in a run with concurrent requests
MaxArrivals == 3

\* number of requests inside the middleware at the same time
MaxInFlight == 3

\* longest patients list of a /predict/batch request
MaxBatch == 2

\* number of HTTP requests dispatched in one run (the counters grow with each)
MaxRequests == 1

\* number of load_model calls after the startup event in one run
MaxReloads == 1

\* number of files save_final_model may leave on disk in one run
MaxFiles == 2

---------------------------------------------------------------------------
(* Python values *)

None == <<>>

Some(v) == <<v>>

Val(o) == o[1]

\* the float 1.0 in ten-thousandths, the unit of probabilities and confidences
One == 10000

\* a default confidence of 0.5
DefaultConfidence_Half == One \div 2

\* confidence = 1.0, the default when the model offers no confidence
DefaultConfidence == One

Bump(bag, key) == bag (+) SetToBag({key})

---------------------------------------------------------------------------
(* PatientData: the request schema *)

FieldNames ==
    <<"age", "sex", "cp", "trestbps", "chol", "fbs", "restecg",
      "thalach", "exang", "oldpeak", "slope", "ca", "thal">>

Fields == {FieldNames[i] : i \in 1..Len(FieldNames)}

\* Field(..., ge=...) of every field
FieldGe ==
    [age |-> 0, sex |-> 0, cp |-> 1, trestbps |-> 0, chol |-> 0, fbs |-> 0,
     restecg |-> 0, thalach |-> 0, exang |-> 0, oldpeak |-> 0, slope |-> 1,
     ca |-> 0, thal |-> 3]

\* Field(..., le=...) of the fields that declare one
FieldLe ==
    [age |-> 120, sex |-> 1, cp |-> 4, fbs |-> 1, restecg |-> 2, exang |-> 1,
     slope |-> 3, ca |-> 3, thal |-> 7]

\* FieldOk with le read as a strict bound
FieldOk_StrictLe(body, f) ==
    /\ f \in DOMAIN body
    /\ body[f] >= FieldGe[f]
    /\ (f \in DOMAIN FieldLe => body[f] < FieldLe[f])

\* FieldOk without the ge check
FieldOk_NoGe(body, f) ==
    /\ f \in DOMAIN body
    /\ (f \in DOMAIN FieldLe => body[f] <= FieldLe[f])

\* One field of a request body passes its Field(...) declaration: it is
\* required (...), not below ge and, where le is declared, not above le.
FieldOk(body, f) ==
    /\ f \in DOMAIN body
    /\ body[f] >= FieldGe[f]
    /\ (f \in DOMAIN FieldLe => body[f] <= FieldLe[f])

\* pydantic builds a PatientData from a JSON object exactly when every field passes
PatientData(body) == \A f \in Fields : FieldOk(body, f)

\* BatchPatientData that looks at the first element only
BatchPatientData_FirstOnly(patients) ==
    Len(patients) > 0 => PatientData(patients[1])

\* patients: List[PatientData]: every element must build, an empty list is a list
BatchPatientData(patients) ==
    \A i \in 1..Len(patients) : PatientData(patients[i])

---------------------------------------------------------------------------
(* Request bodies used by the exploration *)

\* the example of the schema and of the tests
SamplePatient ==
    [age |-> 63, sex |-> 1, cp |-> 1, trestbps |-> 145, chol |-> 233, fbs |-> 1,
     restecg |-> 2, thalach |-> 150, exang |-> 0, oldpeak |-> 23, slope |-> 3,
     ca |-> 0, thal |-> 6]

\* second patient of the batch tests
SecondPatient ==
    [age |-> 67, sex |-> 1, cp |-> 4, trestbps |-> 160, chol |-> 286, fbs |-> 0,
     restecg |-> 2, thalach |-> 108, exang |-> 1, oldpeak |-> 15, slope |-> 2,
     ca |-> 3, thal |-> 3]

\* test_edge_case_minimum_values
MinPatient ==
    [age |-> 0, sex |-> 0, cp |-> 1, trestbps |-> 0, chol |-> 0, fbs |-> 0,
     restecg |-> 0, thalach |-> 0, exang |-> 0, oldpeak |-> 0, slope |-> 1,
     ca |-> 0, thal |-> 3]

\* test_edge_case_boundary_values
MaxPatient ==
    [age |-> 120, sex |-> 1, cp |-> 4, trestbps |-> 300, chol |-> 600, fbs |-> 1,
     restecg |-> 2, thalach |-> 250, exang |-> 1, oldpeak |-> 100, slope |-> 3,
     ca |-> 3, thal |-> 7]

\* body with field f set to v
With(body, f, v) == [g \in DOMAIN body \cup {f} |-> IF g = f THEN v ELSE body[g]]

\* body without field f
Without(body, f) == [g \in DOMAIN body \ {f} |-> body[g]]

\* test_predict_invalid_data: {"age": -5, "sex": 1}
InvalidData == [age |-> -5, sex |-> 1]

\* test_predict_missing_fields: {"age": 63, "sex": 1}
IncompleteData == [age |-> 63, sex |-> 1]

PredictBodies ==
    {SamplePatient, SecondPatient, MinPatient, MaxPatient, InvalidData, IncompleteData,
     With(SamplePatient, "age", -5), With(SamplePatient, "thal", 8),
     Without(SamplePatient, "oldpeak")}

\* a value far above every declared upper bound
BigValue == 1000

\* the values around the declared bounds of field f
ProbeValues(f) ==
    {FieldGe[f] - 1, FieldGe[f], FieldGe[f] + 1}
    \cup (IF f \in DOMAIN FieldLe THEN {FieldLe[f], FieldLe[f] + 1} ELSE {BigValue})

\* the three valid patients with one field moved around its bounds or removed
ValidatorBodies ==
    LET bases == {SamplePatient, MinPatient, MaxPatient}
    IN  bases
        \cup {With(b, f, v) : <<b, f, v>> \in
                    {t \in bases \X Fields \X (-1..BigValue) : t[3] \in ProbeValues(t[2])}}
        \cup {Without(b, f) : <<b, f>> \in bases \X Fields}
        \cup {InvalidData, IncompleteData}

BatchElements == {SamplePatient, SecondPatient, With(SamplePatient, "age", -5)}

SeqsUpTo(S, n) == UNION {[1..k -> S] : k \in 0..n}

BatchBodies == SeqsUpTo(BatchElements, MaxBatch)

---------------------------------------------------------------------------
(* Classifiers: what pickle.load can hand to the service *)

\* A classifier is an opaque object with predict and, optionally, predict_proba
\* and decision_function.  Its answers are a fixed function of the feature row
\* it is given.
\*   predictMode  "const0"/"const1": predict returns that label for every row
\*                (a Mock with return_value); "stump": the label follows the row
\*   scoreMode    "const": predict_proba / decision_function return one value for
\*                every row (a Mock); "stump": they follow the row
\*   p1           predict_proba's probability of class 1 (on the positive side)
\*   d            decision_function's score (on the positive side), in tenths
\*   raises       the call that raises on a row of the positive side: "none",
\*                "predict" or "score" (predict_proba, decision_function)
Classifier(type, hasProba, hasDecision, predictMode, scoreMode, p1, d, raises) ==
    [type |-> type, hasProba |-> hasProba, hasDecision |-> hasDecision,
     predictMode |-> predictMode, scoreMode |-> scoreMode, p1 |-> p1, d |-> d,
     raises |-> raises]

\* train_logistic_regression: predict_proba and decision_function, consistent with predict
LogisticRegression ==
    Classifier("LogisticRegression", TRUE, TRUE, "stump", "stump", 7000, 5, "none")

\* train_random_forest / train_decision_tree: predict_proba only
RandomForestClassifier ==
    Classifier("RandomForestClassifier", TRUE, FALSE, "stump", "stump", 9000, 0, "none")

\* the mock_model fixture: predict -> 1, predict_proba -> [0.3, 0.7]; a Mock
\* answers every attribute, decision_function included
MockModel ==
    Classifier("LogisticRegression", TRUE, TRUE, "const1", "const", 7000, 5, "none")

\* test_prediction_confidence_range with prob = 0.1: predict -> 1, predict_proba -> [0.9, 0.1]
MockModelLowProba ==
    Classifier("LogisticRegression", TRUE, TRUE, "const1", "const", 1000, 5, "none")

\* test_predict_model_without_predict_proba: no predict_proba,
\* decision_function -> 0.5; here next to predict -> 0
MockModelNoProba ==
    Classifier("Mock", FALSE, TRUE, "const0", "const", 0, 5, "none")

\* a margin classifier: decision_function only (0.5 or -0.5), predict is the
\* sign of the score
LinearSVC ==
    Classifier("LinearSVC", FALSE, TRUE, "stump", "stump", 0, 5, "none")

\* a classifier with predict only
NearestCentroid ==
    Classifier("NearestCentroid", FALSE, FALSE, "stump", "const", 0, 0, "none")

\* classifiers whose calls raise on the rows of the positive side
RaisingPredict ==
    Classifier("Mock", TRUE, TRUE, "stump", "stump", 7000, 5, "predict")

RaisingProba ==
    Classifier("Mock", TRUE, FALSE, "stump", "stump", 7000, 0, "score")

\* the side of the decision boundary a feature row lies on
Positive(x) == x["age"] > 0

\* hasattr(model, name)
HasAttr(m, name) ==
    CASE name = "predict_proba" -> m.hasProba
      [] name = "decision_function" -> m.hasDecision
      [] OTHER -> name = "predict"

\* model.predict(x)[0]
ModelPredict(m, x) ==
    CASE m.predictMode = "const0" -> 0
      [] m.predictMode = "const1" -> 1
      [] OTHER -> IF Positive(x) THEN 1 ELSE 0

\* model.predict_proba(x)[0]: <<P(class 0), P(class 1)>>
ModelPredictProba(m, x) ==
    LET p == IF m.scoreMode = "const" \/ Positive(x) THEN m.p1 ELSE One - m.p1
    IN  <<One - p, p>>

\* model.decision_function(x)[0], in tenths
ModelDecisionFunction(m, x) ==
    IF m.scoreMode = "const" \/ Positive(x) THEN m.d ELSE 0 - m.d

\* probabilities[1 - prediction]: the probability of the other class
Index_OtherClass(seq, i) == seq[2 - i]

\* probabilities[prediction]: Python indexes from 0
Index(seq, i) == seq[i + 1]

\* np.exp(t) for t in tenths, in ten-thousandths
NpExp(t) ==
    CASE t = -5 -> 6065
      [] t = 0 -> 10000
      [] t = 5 -> 16487

\* 1 / (1 + np.exp(decision)): the sign of the exponent lost
Sigmoid_NoNegation(decision) ==
    LET den == One + NpExp(decision)
    IN  (2 * One * One + den) \div (2 * den)

\* 1 / (1 + np.exp(-decision)), rounded to the nearest ten-thousandth
Sigmoid(decision) ==
    LET den == One + NpExp(0 - decision)
    IN  (2 * One * One + den) \div (2 * den)

---------------------------------------------------------------------------
(* Scalers *)

\* StandardScaler fitted on the two patients of the batch test: per column the
\* mean and the population standard deviation (a zero deviation is replaced by 1)
Abs(n) == IF n < 0 THEN 0 - n ELSE n

FittedScaler ==
    [type |-> "StandardScaler",
     feature_names_in_ |-> FieldNames,
     mean_ |-> [f \in Fields |-> (SamplePatient[f] + SecondPatient[f]) \div 2],
     scale_ |-> [f \in Fields |->
                    LET h == Abs(SamplePatient[f] - SecondPatient[f]) \div 2
                    IN  IF h = 0 THEN 1 ELSE h]]

\* a StandardScaler fitted on another column set than the request schema
MismatchedScaler ==
    [type |-> "StandardScaler",
     feature_names_in_ |-> SubSeq(FieldNames, 1, Len(FieldNames) - 1),
     mean_ |-> [f \in Fields \ {"thal"} |-> 0],
     scale_ |-> [f \in Fields \ {"thal"} |-> 1]]

\* the mock_scaler fixture: transform is the identity
MockScaler ==
    [type |-> "Mock", feature_names_in_ |-> FieldNames,
     mean_ |-> [f \in Fields |-> 0], scale_ |-> [f \in Fields |-> 1]]

\* the columns of pd.DataFrame([patient.dict()]), in declaration order
Columns(input_data) ==
    SelectSeq(FieldNames, LAMBDA f : f \in DOMAIN input_data)

\* scaler.transform raises ValueError when the columns differ from the fitted ones
TransformRaises(s, input_data) ==
    s.type = "StandardScaler" /\ Columns(input_data) # s.feature_names_in_

\* scaler.transform(input_data[numeric_cols]): (raw - mean) / scale per column,
\* truncated to an integer
Transform(s, input_data) ==
    IF s.type = "Mock" THEN input_data
    ELSE [f \in DOMAIN input_data |-> (input_data[f] - s.mean_[f]) \div s.scale_[f]]

---------------------------------------------------------------------------
(* DataFrames *)

\* A cell is a number, a string that reads as a number ("3.0"), the string "?",
\* another string, or NaN / pd.NA.
Num(n) == [t |-> "num", v |-> n]

NumStr(n) == [t |-> "numstr", v |-> n]

QuestionMark == [t |-> "?", v |-> 0]

Text == [t |-> "text", v |-> 0]

NaN == [t |-> "nan", v |-> 0]

\* pd.DataFrame: the column labels in order and the rows in index order, each
\* row a function from the column labels to cells
DataFrame(columns, rows) == [columns |-> columns, rows |-> rows]

\* the set of column labels
ColumnSet(frame) == {frame.columns[i] : i \in 1..Len(frame.columns)}

\* df.replace("?", pd.NA)
ReplaceMarker(frame) ==
    DataFrame(frame.columns,
              [i \in 1..Len(frame.rows) |->
                  [c \in DOMAIN frame.rows[i] |->
                      IF frame.rows[i][c] = QuestionMark THEN NaN ELSE frame.rows[i][c]]])

\* pd.to_numeric(df[col]) raises on a string that is no number
ToNumericRaises(frame, col) ==
    \E i \in 1..Len(frame.rows) : frame.rows[i][col].t \in {"text", "?"}

\* the loop over the columns: df[col] = pd.to_numeric(df[col]) for every column
\* but target, a column on which it raises being left as it is
ToNumeric(frame) ==
    DataFrame(frame.columns,
              [i \in 1..Len(frame.rows) |->
                  [c \in DOMAIN frame.rows[i] |->
                      IF c # "target" /\ ~ToNumericRaises(frame, c)
                            /\ frame.rows[i][c].t = "numstr"
                      THEN Num(frame.rows[i][c].v)
                      ELSE frame.rows[i][c]]])

\* a row with a missing value
HasNa(row) == \E c \in DOMAIN row : row[c] = NaN

\* df.dropna().reset_index(drop=True)
DropNa(frame) ==
    DataFrame(frame.columns, SelectSeq(frame.rows, LAMBDA row : ~HasNa(row)))

\* df["target"] = (df["target"] > 0).astype(int)
BinarizeTarget(frame) ==
    DataFrame(frame.columns,
              [i \in 1..Len(frame.rows) |->
                  [frame.rows[i] EXCEPT
                      !["target"] = Num(IF frame.rows[i]["target"].v > 0 THEN 1 ELSE 0)]])

\* the result of a call: the exception raised ("" when it returns) and the value
Returned(value) == [raised |-> "", value |-> value]

Raises(exc) == [raised |-> exc, value |-> <<>>]

\* clean_and_preprocess_heart_data without the replacement of "?"
clean_and_preprocess_heart_data_KeepsMarker(frame) ==
    LET dropped == DropNa(ToNumeric(frame))
    IN  IF "target" \in ColumnSet(dropped)
        THEN Returned(BinarizeTarget(dropped))
        ELSE Raises("KeyError")

\* clean_and_preprocess_heart_data(df)
clean_and_preprocess_heart_data(frame) ==
    LET dropped == DropNa(ToNumeric(ReplaceMarker(frame)))
    IN  IF "target" \in ColumnSet(dropped)
        THEN Returned(BinarizeTarget(dropped))
        ELSE Raises("KeyError")

\* the rows of a raw frame with the given columns: age as read by read_csv, ca
\* read as strings because of its "?" markers, target a class from 0 to 4
RawCells(col) ==
    CASE col = "age" -> {Num(63), NaN}
      [] col = "ca" -> {NumStr(3), QuestionMark, Text}
      [] col = "target" -> {Num(0), Num(2), NaN}

RawRows(columns) ==
    {row \in [{columns[i] : i \in 1..Len(columns)} -> {Num(63), NaN, NumStr(3), QuestionMark, Text, Num(0), Num(2)}] :
        \A c \in DOMAIN row : row[c] \in RawCells(c)}

\* the raw frames: up to MaxRows rows, with or without the target column
RawFrames ==
    {DataFrame(columns, rows) :
        <<columns, rows>> \in
            UNION {{columns} \X SeqsUpTo(RawRows(columns), MaxRows) :
                      columns \in {<<"age", "ca", "target">>, <<"age", "ca">>}}}

\* expected_columns of validate_heart_data
ExpectedColumns ==
    <<"age", "sex", "cp", "trestbps", "chol", "fbs", "restecg", "thalach", "exang",
      "oldpeak", "slope", "ca", "thal", "target">>

\* range_checks of validate_heart_data, in the order of the dict
RangeChecks ==
    <<[col |-> "age", min_val |-> 0, max_val |-> 120],
      [col |-> "trestbps", min_val |-> 50, max_val |-> 250],
      [col |-> "chol", min_val |-> 100, max_val |-> 600],
      [col |-> "thalach", min_val |-> 50, max_val |-> 250],
      [col |-> "oldpeak", min_val |-> 0, max_val |-> 10]>>

\* the row indexes of a frame
RowIndex(frame) == 1..Len(frame.rows)

\* df.isnull().sum().sum()
MissingTotal(frame) ==
    Cardinality({<<i, c>> \in RowIndex(frame) \X ColumnSet(frame) : frame.rows[i][c] = NaN})

\* len(df[(df[col] < min_val) | (df[col] > max_val)]); a comparison with NaN is False
OutOfRange(frame, col, min_val, max_val) ==
    Cardinality({i \in RowIndex(frame) :
                    /\ frame.rows[i][col].t = "num"
                    /\ \/ frame.rows[i][col].v < min_val
                       \/ frame.rows[i][col].v > max_val})

\* the warnings of the loop over range_checks, in its order
RangeWarnings(frame) ==
    SelectSeq([k \in 1..Len(RangeChecks) |->
                  [kind |-> "out_of_range", col |-> RangeChecks[k].col,
                   count |-> IF RangeChecks[k].col \in ColumnSet(frame)
                             THEN OutOfRange(frame, RangeChecks[k].col,
                                             RangeChecks[k].min_val, RangeChecks[k].max_val)
                             ELSE 0]],
              LAMBDA w : w.count > 0)

\* df.select_dtypes(include=[int64, float64, ...]): a column of numbers and NaN
IsNumeric(frame, col) ==
    \A i \in RowIndex(frame) : frame.rows[i][col].t \in {"num", "nan"}

\* the values of a numeric column, NaN skipped, in ascending order
SortedValues(frame, col) ==
    LET cells == SelectSeq([i \in RowIndex(frame) |-> frame.rows[i][col]],
                           LAMBDA cell : cell.t = "num")
    IN  SortSeq([i \in 1..Len(cells) |-> cells[i].v], LAMBDA a, b : a < b)

\* four times Series.quantile(q4 / 4) of the ascending values s: linear
\* interpolation between the two closest ranks
Quantile4(s, q4) ==
    LET k == (Len(s) - 1) * q4
        lo == (k \div 4) + 1
        frac == k % 4
    IN  IF frac = 0 THEN 4 * s[lo] ELSE 4 * s[lo] + frac * (s[lo + 1] - s[lo])

\* len(df[(df[col] < lower_bound) | (df[col] > upper_bound)]), the comparison
\* made on eight times each side; the quantiles of an all-NaN column are NaN
Outliers(frame, col) ==
    LET s == SortedValues(frame, col)
        Q1 == Quantile4(s, 1)
        Q3 == Quantile4(s, 3)
        IQR == Q3 - Q1
        lower_bound == 2 * Q1 - 3 * IQR
        upper_bound == 2 * Q3 + 3 * IQR
    IN  IF Len(s) = 0 THEN 0
        ELSE Cardinality({i \in RowIndex(frame) :
                             /\ frame.rows[i][col].t = "num"
                             /\ \/ 8 * frame.rows[i][col].v < lower_bound
                                \/ 8 * frame.rows[i][col].v > upper_bound})

\* outlier_summary: the numeric columns but target that have outliers
OutlierSummary(frame) ==
    [c \in {c \in ColumnSet(frame) \ {"target"} :
                IsNumeric(frame, c) /\ Outliers(frame, c) > 0} |-> Outliers(frame, c)]

\* df.duplicated().sum(): the rows equal to an earlier row
DuplicateRows(frame) ==
    Cardinality({i \in RowIndex(frame) : \E j \in 1..(i - 1) : frame.rows[j] = frame.rows[i]})

\* df["target"].value_counts().to_dict(); NaN is not counted
ClassBalance(frame) ==
    LET present == {i \in RowIndex(frame) : frame.rows[i]["target"] # NaN}
    IN  [cell \in {frame.rows[i]["target"] : i \in present} |->
            Cardinality({i \in present : frame.rows[i]["target"] = cell})]

\* one warning when the condition holds
WarnIf(cond, kind, count) ==
    IF cond THEN <<[kind |-> kind, col |-> "", count |-> count]>> ELSE <<>>

\* validate_heart_data with an out-of-range value treated as an error
validate_heart_data_RangeIsError(frame) ==
    LET missing_cols == {ExpectedColumns[i] : i \in 1..Len(ExpectedColumns)} \ ColumnSet(frame)
    IN  [is_valid |-> missing_cols = {} /\ RangeWarnings(frame) = <<>>,
         errors |-> WarnIf(missing_cols # {}, "missing_columns", Cardinality(missing_cols))
                    \o RangeWarnings(frame),
         warnings |-> <<>>,
         metrics |-> [total_rows |-> Len(frame.rows)]]

\* validate_heart_data(df)
validate_heart_data(frame) ==
    LET expected == {ExpectedColumns[i] : i \in 1..Len(ExpectedColumns)}
        missing_cols == expected \ ColumnSet(frame)
        extra_cols == ColumnSet(frame) \ expected
        outlier_summary == OutlierSummary(frame)
    IN  [is_valid |-> missing_cols = {},
         errors |-> WarnIf(missing_cols # {}, "missing_columns", Cardinality(missing_cols)),
         warnings |->
            WarnIf(extra_cols # {}, "extra_columns", Cardinality(extra_cols))
            \o WarnIf(MissingTotal(frame) > 0, "missing_values", MissingTotal(frame))
            \o RangeWarnings(frame)
            \o WarnIf(DOMAIN outlier_summary # {}, "outliers",
                      Cardinality(DOMAIN outlier_summary)),
         metrics |->
            [outliers |-> outlier_summary,
             total_rows |-> Len(frame.rows),
             total_columns |-> Len(frame.columns),
             missing_values |-> MissingTotal(frame),
             duplicate_rows |-> DuplicateRows(frame),
             class_balance |-> IF "target" \in ColumnSet(frame)
                               THEN ClassBalance(frame) ELSE <<>>]]

\* a row of typical values for the expected columns
TypicalRow ==
    [c \in {ExpectedColumns[i] : i \in 1..Len(ExpectedColumns)} \cup {"id"} |->
        CASE c = "age" -> Num(60)
          [] c = "trestbps" -> Num(120)
          [] c = "chol" -> Num(200)
          [] c = "thalach" -> Num(150)
          [] c = "thal" -> Num(3)
          [] c \in {"sex", "cp", "oldpeak", "slope", "id"} -> Num(1)
          [] OTHER -> Num(0)]

\* the last row of a frame under validation: the typical row with another age,
\* cholesterol or ca
ProbeRows ==
    {[TypicalRow EXCEPT !["age"] = age, !["chol"] = chol, !["ca"] = ca] :
        <<age, chol, ca>> \in {Num(60), Num(61), Num(150), NaN} \X {Num(200), Num(700)}
                                \X {Num(0), QuestionMark}}

\* the expected columns a frame under validation lacks
MissingSets ==
    {{}, {"ca"}, {"target"}, {"age", "chol"},
     {ExpectedColumns[i] : i \in 1..Len(ExpectedColumns)} \ {"age", "sex"}}

\* the frames under validation: TypicalRows typical rows or none, then one probe
\* row, over the expected columns less some and possibly an id column
ValidationFrames ==
    {LET columns == SelectSeq(ExpectedColumns, LAMBDA c : c \notin args[1]) \o args[2]
         keep == {columns[i] : i \in 1..Len(columns)}
         Restrict(row) == [c \in keep |-> row[c]]
     IN  DataFrame(columns,
                   [i \in 1..args[3] |-> Restrict(TypicalRow)] \o <<Restrict(args[4])>>) :
        args \in MissingSets \X {<<>>, <<"id">>} \X {0, TypicalRows} \X ProbeRows}

\* X.select_dtypes(include=[int64, float64, ...]).columns, in column order
NumericCols(frame) == SelectSeq(frame.columns, LAMBDA c : IsNumeric(frame, c))

\* df.drop(columns=[col])
Drop(frame, col) ==
    DataFrame(SelectSeq(frame.columns, LAMBDA c : c # col),
              [i \in RowIndex(frame) |->
                  [c \in DOMAIN frame.rows[i] \ {col} |-> frame.rows[i][c]]])

\* the string of a cell of a categorical column
Label(cell) == IF cell.t = "text" THEN "abc" ELSE ToString(cell.v) \o ".0"

\* the order of the category strings: digits sort before letters
Before(a, b) == a.t # "text" /\ (b.t = "text" \/ a.v < b.v)

\* the categories of a column in ascending order
RECURSIVE SortedCategories(_)
SortedCategories(S) ==
    IF S = {} THEN <<>>
    ELSE LET first == CHOOSE a \in S : \A b \in S \ {a} : Before(a, b)
         IN  <<first>> \o SortedCategories(S \ {first})

\* the indicator columns of one categorical column, the first category dropped
Indicators(frame, col) ==
    Tail(SortedCategories({frame.rows[i][col] : i \in RowIndex(frame)}))

\* the columns pd.get_dummies appends for the categorical columns, in order
RECURSIVE DummyColumns(_, _)
DummyColumns(frame, cols) ==
    IF cols = <<>> THEN <<>>
    ELSE [k \in 1..Len(Indicators(frame, Head(cols))) |->
             [name |-> Head(cols) \o "_" \o Label(Indicators(frame, Head(cols))[k]),
              col |-> Head(cols), category |-> Indicators(frame, Head(cols))[k]]]
         \o DummyColumns(frame, Tail(cols))

\* pd.get_dummies(X, columns=categorical_cols, drop_first=True): the other columns
\* first, then the indicator columns
GetDummies(frame, categorical_cols) ==
    LET dummies == DummyColumns(frame, categorical_cols)
        others == SelectSeq(frame.columns,
                            LAMBDA c : \A k \in 1..Len(categorical_cols) :
                                          categorical_cols[k] # c)
        names == [k \in 1..Len(dummies) |-> dummies[k].name]
    IN  DataFrame(others \o names,
                  [i \in RowIndex(frame) |->
                      [c \in {others[k] : k \in 1..Len(others)}
                              \cup {names[k] : k \in 1..Len(names)} |->
                          IF c \in DOMAIN frame.rows[i] /\ \E k \in 1..Len(others) : others[k] = c
                          THEN frame.rows[i][c]
                          ELSE LET d == CHOOSE k \in 1..Len(dummies) : dummies[k].name = c
                               IN  Num(IF frame.rows[i][dummies[d].col] = dummies[d].category
                                       THEN 1 ELSE 0)]])

RECURSIVE Sum(_)
Sum(s) == IF s = <<>> THEN 0 ELSE Head(s) + Sum(Tail(s))

\* the values of a numeric column
ColumnValues(frame, col) == [i \in RowIndex(frame) |-> frame.rows[i][col].v]

\* StandardScaler.mean_ of a column, truncated to an integer
Mean(values) == Sum(values) \div Len(values)

\* StandardScaler.scale_ of a column: the square root of the population
\* variance, truncated to an integer, and 1 for a constant column
Scale(values) ==
    LET var == Sum([i \in 1..Len(values) |->
                       (values[i] - Mean(values)) * (values[i] - Mean(values))])
                   \div Len(values)
        spread == {Abs(values[i] - values[j]) : i, j \in 1..Len(values)}
        widest == CHOOSE m \in spread : \A d \in spread : d <= m
        root == CHOOSE r \in 0..widest : r * r <= var /\ (r + 1) * (r + 1) > var
    IN  IF root = 0 THEN 1 ELSE root

\* StandardScaler().fit(X[numeric_cols]): the scaler object, with its identity
Fit(id, frame, numeric_cols) ==
    LET cols == {numeric_cols[k] : k \in 1..Len(numeric_cols)}
    IN  [id |-> id,
         feature_names_in_ |-> numeric_cols,
         mean_ |-> [c \in cols |-> Mean(ColumnValues(frame, c))],
         scale_ |-> [c \in cols |-> Scale(ColumnValues(frame, c))]]

\* X[numeric_cols] = scaler.transform(X[numeric_cols]), truncated to integers
ScaleColumns(s, frame, numeric_cols) ==
    DataFrame(frame.columns,
              [i \in RowIndex(frame) |->
                  [c \in DOMAIN frame.rows[i] |->
                      IF \E k \in 1..Len(numeric_cols) : numeric_cols[k] = c
                      THEN Num((frame.rows[i][c].v - s.mean_[c]) \div s.scale_[c])
                      ELSE frame.rows[i][c]]])

\* check_array and the feature-name check of StandardScaler raise ValueError on a
\* frame without rows or numeric columns, and on other columns than the fitted
FitRaises(frame, numeric_cols) == frame.rows = <<>> \/ numeric_cols = <<>>

TransformColumnsRaise(s, frame, numeric_cols) ==
    frame.rows = <<>> \/ numeric_cols # s.feature_names_in_

\* prepare_ml_features refitting the scaler it is given
prepare_ml_features_Refits(frame, scaler_arg, fresh) ==
    IF "target" \notin ColumnSet(frame) THEN Raises("KeyError")
    ELSE LET X == Drop(frame, "target")
             numeric_cols == NumericCols(X)
             s == Fit(IF scaler_arg = None THEN fresh ELSE Val(scaler_arg).id,
                      X, numeric_cols)
         IN  IF FitRaises(X, numeric_cols) THEN Raises("ValueError")
             ELSE Returned([X |-> ScaleColumns(s, X, numeric_cols),
                            y |-> [i \in RowIndex(frame) |-> frame.rows[i]["target"]],
                            scaler |-> s])

\* prepare_ml_features(df, scaler); fresh is the identity of a new object
prepare_ml_features(frame, scaler_arg, fresh) ==
    IF "target" \notin ColumnSet(frame) THEN Raises("KeyError")
    ELSE LET dropped == Drop(frame, "target")
             y == [i \in RowIndex(frame) |-> frame.rows[i]["target"]]
             numeric_cols == NumericCols(dropped)
             categorical_cols == SelectSeq(dropped.columns,
                                           LAMBDA c : ~IsNumeric(dropped, c))
             X == IF categorical_cols # <<>>
                  THEN GetDummies(dropped, categorical_cols)
                  ELSE dropped
         IN  IF scaler_arg = None
             THEN IF FitRaises(X, numeric_cols) THEN Raises("ValueError")
                  ELSE LET s == Fit(fresh, X, numeric_cols)
                       IN  Returned([X |-> ScaleColumns(s, X, numeric_cols), y |-> y,
                                     scaler |-> s])
             ELSE IF TransformColumnsRaise(Val(scaler_arg), X, numeric_cols)
                  THEN Raises("ValueError")
                  ELSE Returned([X |-> ScaleColumns(Val(scaler_arg), X, numeric_cols),
                                 y |-> y, scaler |-> Val(scaler_arg)])

\* scalers fitted earlier: on age alone, on age and ca, on the 13 features
FittedEarlier ==
    {[id |-> 1, feature_names_in_ |-> <<"age">>,
      mean_ |-> [c \in {"age"} |-> 50], scale_ |-> [c \in {"age"} |-> 5]],
     [id |-> 2, feature_names_in_ |-> <<"age", "ca">>,
      mean_ |-> [c \in {"age", "ca"} |-> 50], scale_ |-> [c \in {"age", "ca"} |-> 5]],
     [id |-> 3, feature_names_in_ |-> SubSeq(ExpectedColumns, 1, 13),
      mean_ |-> [c \in {ExpectedColumns[k] : k \in 1..13} |-> 50],
      scale_ |-> [c \in {ExpectedColumns[k] : k \in 1..13} |-> 5]]}

---------------------------------------------------------------------------
(* Files *)

\* Path(parent) / (stem + ".pkl")
Pkl(parent, stem) == [parent |-> parent, stem |-> stem, suffix |-> ".pkl"]

\* a file holding the pickle of obj
Pickled(path, obj) == [path |-> path, content |-> [kind |-> "pickle", obj |-> obj]]

\* a file pickle.load cannot read
Garbage(path) == [path |-> path, content |-> [kind |-> "garbage"]]

\* load_model's default argument, "artifacts/logistic_regression.pkl"
DefaultModelPath == Pkl("artifacts", "logistic_regression")

\* model_file.parent / f"{model_file.stem}_scaler.pkl"
ScalerPath(model_file) == Pkl(model_file.parent, model_file.stem \o "_scaler")

\* what save_final_model / generate_scalers leave for the default model
DefaultArtifacts ==
    {Pickled(DefaultModelPath, LogisticRegression),
     Pickled(ScalerPath(DefaultModelPath), FittedScaler)}

\* the default model next to a companion scaler file that pickle.load cannot read
UnreadableScalerArtifacts ==
    {Pickled(DefaultModelPath, LogisticRegression),
     Garbage(ScalerPath(DefaultModelPath))}

\* the other model files of the exploration, with or without a companion scaler
OtherArtifacts ==
    {Pickled(Pkl("artifacts", "random_forest"), RandomForestClassifier),
     Pickled(Pkl("artifacts", "decision_tree"), RandomForestClassifier),
     Pickled(Pkl("artifacts", "decision_tree_scaler"), MismatchedScaler),
     Pickled(Pkl(".", "test_model"), MockModel),
     Pickled(Pkl(".", "test_model_scaler"), MockScaler),
     Pickled(Pkl(".", "low_proba"), MockModelLowProba),
     Pickled(Pkl(".", "no_proba"), MockModelNoProba),
     Pickled(Pkl(".", "no_proba_scaler"), MockScaler),
     Pickled(Pkl("artifacts", "linear_svc"), LinearSVC),
     Pickled(Pkl("artifacts", "linear_svc_scaler"), FittedScaler),
     Pickled(Pkl("artifacts", "nearest_centroid"), NearestCentroid),
     Pickled(Pkl("artifacts", "nearest_centroid_scaler"), FittedScaler),
     Pickled(Pkl(".", "raising_predict"), RaisingPredict),
     Pickled(Pkl(".", "raising_predict_scaler"), FittedScaler),
     Pickled(Pkl(".", "raising_proba"), RaisingProba),
     Pickled(Pkl(".", "raising_proba_scaler"), FittedScaler),
     Garbage(Pkl(".", "truncated")),
     Pickled(Pkl(".", "half_written"), RandomForestClassifier),
     Garbage(Pkl(".", "half_written_scaler"))}

\* the model paths load_model is called with; the last one names no file
ModelPaths ==
    {DefaultModelPath,
     Pkl("artifacts", "random_forest"), Pkl("artifacts", "decision_tree"),
     Pkl(".", "test_model"), Pkl(".", "low_proba"), Pkl(".", "no_proba"),
     Pkl("artifacts", "linear_svc"), Pkl("artifacts", "nearest_centroid"),
     Pkl(".", "raising_predict"), Pkl(".", "raising_proba"),
     Pkl(".", "truncated"), Pkl(".", "half_written"),
     Pkl(".", "nonexistent_model")}

\* Path.exists()
Exists(files, path) == \E f \in files : f.path = path

\* the content of the file at path
Content(files, path) == (CHOOSE f \in files : f.path = path).content

\* pickle.load raises on a file that holds no pickle
PickleRaises(files, path) == Content(files, path).kind # "pickle"

\* pickle.load(f)
PickleLoad(files, path) == Content(files, path).obj

---------------------------------------------------------------------------
(* load_model and the startup event *)

\* load_model without the else branch: a scaler held from an earlier load stays
\* when the model has no companion file
load_model_KeepsScaler(files, model_file) ==
    LET kept == [model |-> model, model_name |-> model_name, scaler |-> scaler,
                 model_loaded |-> model_loaded,
                 model_info_metric |-> model_info_metric, raised |-> ""]
        scaler_path == ScalerPath(model_file)
    IN  IF ~Exists(files, model_file)
        THEN [kept EXCEPT !.model_loaded = 0, !.raised = "FileNotFoundError"]
        ELSE IF PickleRaises(files, model_file)
        THEN [kept EXCEPT !.raised = "UnpicklingError"]
        ELSE LET read == [kept EXCEPT !.model = Some(PickleLoad(files, model_file)),
                                      !.model_name = Some(model_file.stem)]
             IN  IF Exists(files, scaler_path) /\ PickleRaises(files, scaler_path)
                 THEN [read EXCEPT !.raised = "UnpicklingError"]
                 ELSE [read EXCEPT
                        !.scaler = IF Exists(files, scaler_path)
                                   THEN Some(PickleLoad(files, scaler_path))
                                   ELSE scaler,
                        !.model_loaded = 1,
                        !.model_info_metric =
                            Some([model_name |-> model_file.stem,
                                  model_type |-> PickleLoad(files, model_file).type,
                                  model_path |-> model_file])]

\* load_model dropping what is held before it looks for the file
load_model_ClearsFirst(files, model_file) ==
    LET kept == [model |-> None, model_name |-> None, scaler |-> None,
                 model_loaded |-> model_loaded,
                 model_info_metric |-> model_info_metric, raised |-> ""]
        scaler_path == ScalerPath(model_file)
    IN  IF ~Exists(files, model_file)
        THEN [kept EXCEPT !.model_loaded = 0, !.raised = "FileNotFoundError"]
        ELSE IF PickleRaises(files, model_file)
        THEN [kept EXCEPT !.raised = "UnpicklingError"]
        ELSE LET read == [kept EXCEPT !.model = Some(PickleLoad(files, model_file)),
                                      !.model_name = Some(model_file.stem)]
             IN  IF Exists(files, scaler_path) /\ PickleRaises(files, scaler_path)
                 THEN [read EXCEPT !.raised = "UnpicklingError"]
                 ELSE [read EXCEPT
                        !.scaler = IF Exists(files, scaler_path)
                                   THEN Some(PickleLoad(files, scaler_path))
                                   ELSE None,
                        !.model_loaded = 1,
                        !.model_info_metric =
                            Some([model_name |-> model_file.stem,
                                  model_type |-> PickleLoad(files, model_file).type,
                                  model_path |-> model_file])]

\* load_model(model_path) against the files on disk: the globals and metrics it
\* leaves, and the exception it raises ("" when it returns)
load_model(files, model_file) ==
    LET kept == [model |-> model, model_name |-> model_name, scaler |-> scaler,
                 model_loaded |-> model_loaded,
                 model_info_metric |-> model_info_metric, raised |-> ""]
        scaler_path == ScalerPath(model_file)
    IN  IF ~Exists(files, model_file)
        THEN [kept EXCEPT !.model_loaded = 0, !.raised = "FileNotFoundError"]
        ELSE IF PickleRaises(files, model_file)
        THEN [kept EXCEPT !.raised = "UnpicklingError"]
        ELSE LET read == [kept EXCEPT !.model = Some(PickleLoad(files, model_file)),
                                      !.model_name = Some(model_file.stem)]
             IN  IF Exists(files, scaler_path) /\ PickleRaises(files, scaler_path)
                 THEN [read EXCEPT !.raised = "UnpicklingError"]
                 ELSE [read EXCEPT
                        !.scaler = IF Exists(files, scaler_path)
                                   THEN Some(PickleLoad(files, scaler_path))
                                   ELSE None,
                        !.model_loaded = 1,
                        !.model_info_metric =
                            Some([model_name |-> model_file.stem,
                                  model_type |-> PickleLoad(files, model_file).type,
                                  model_path |-> model_file])]

\* what the last operation was and what it answered
Record(op, method, body, status, resp, calls) ==
    [op |-> op, method |-> method, body |-> body, status |-> status, resp |-> resp,
     calls |-> calls]

\* a call of load_model outside any request (a manual reload)
LoadModel(model_path) ==
    LET r == load_model(disk, model_path)
    IN  /\ started
        /\ reloads < MaxReloads
        /\ reloads' = reloads + 1
        /\ model' = r.model
        /\ model_name' = r.model_name
        /\ scaler' = r.scaler
        /\ model_loaded' = r.model_loaded
        /\ model_info_metric' = r.model_info_metric
        /\ last' = Record("load_model", "", <<model_path>>, 0, [raised |-> r.raised], <<>>)
        /\ UNCHANGED <<request_count, request_duration, prediction_count,
                       prediction_latency, confidence_scores, error_count,
                       active_requests, started, served, disk, df, in_flight>>

\* startup_event: load the default model, swallow and count a failure
StartupEvent ==
    LET r == load_model(disk, DefaultModelPath)
    IN  /\ ~started
        /\ started' = TRUE
        /\ model' = r.model
        /\ model_name' = r.model_name
        /\ scaler' = r.scaler
        /\ model_loaded' = r.model_loaded
        /\ model_info_metric' = r.model_info_metric
        /\ error_count' = IF r.raised # ""
                          THEN Bump(error_count, <<"ModelLoadError", "/startup">>)
                          ELSE error_count
        /\ last' = Record("startup_event", "", <<DefaultModelPath>>, 0,
                          [raised |-> ""], <<>>)
        /\ UNCHANGED <<request_count, request_duration, prediction_count,
                       prediction_latency, confidence_scores, active_requests, served,
                       reloads, disk, df, in_flight>>

---------------------------------------------------------------------------
(* The endpoint functions *)

\* one call on the scaler or the model, with the row it was given
Call(fn, x) == [fn |-> fn, x |-> x]

\* the call raises on row x
ModelRaises(m, fn, x) ==
    /\ Positive(x)
    /\ \/ fn = "predict" /\ m.raises = "predict"
       \/ fn \in {"predict_proba", "decision_function"} /\ m.raises = "score"

\* the try block left by an exception
Raised(exc, calls) ==
    [raised |-> TRUE, exc |-> exc, prediction |-> 0, confidence |-> 0, calls |-> calls]

\* the try block ran to the confidence
Computed(prediction, confidence, calls) ==
    [raised |-> FALSE, exc |-> "", prediction |-> prediction,
     confidence |-> confidence, calls |-> calls]

\* predict with the scaled row kept apart: predict_proba and decision_function
\* are given the DataFrame as it was built from the request
PredictInference_RawScores(patient) ==
    LET input_data == patient
        numeric_cols == DOMAIN input_data
        scaling == scaler # None /\ Cardinality(numeric_cols) > 0
        c1 == IF scaling THEN <<Call("transform", input_data)>> ELSE <<>>
    IN  IF scaling /\ TransformRaises(Val(scaler), input_data)
        THEN Raised("ValueError", c1)
        ELSE
        LET x == IF scaling THEN Transform(Val(scaler), input_data) ELSE input_data
            c2 == Append(c1, Call("predict", x))
        IN  IF ModelRaises(Val(model), "predict", x)
            THEN Raised("RuntimeError", c2)
            ELSE
            LET prediction == ModelPredict(Val(model), x)
            IN  IF HasAttr(Val(model), "predict_proba")
                THEN Computed(prediction,
                              Index(ModelPredictProba(Val(model), input_data), prediction),
                              Append(c2, Call("predict_proba", input_data)))
                ELSE IF HasAttr(Val(model), "decision_function")
                THEN Computed(prediction,
                              Sigmoid(ModelDecisionFunction(Val(model), input_data)),
                              Append(c2, Call("decision_function", input_data)))
                ELSE Computed(prediction, DefaultConfidence, c2)

\* predict going on with the unscaled row when scaler.transform raises
PredictInference_IgnoresMismatch(patient) ==
    LET input_data == patient
        numeric_cols == DOMAIN input_data
        scaling == scaler # None /\ Cardinality(numeric_cols) > 0
        c1 == IF scaling THEN <<Call("transform", input_data)>> ELSE <<>>
        x == IF scaling /\ ~TransformRaises(Val(scaler), input_data)
             THEN Transform(Val(scaler), input_data)
             ELSE input_data
        c2 == Append(c1, Call("predict", x))
    IN  IF ModelRaises(Val(model), "predict", x)
        THEN Raised("RuntimeError", c2)
        ELSE
        LET prediction == ModelPredict(Val(model), x)
        IN  IF HasAttr(Val(model), "predict_proba")
            THEN
                IF ModelRaises(Val(model), "predict_proba", x)
                THEN Raised("RuntimeError", Append(c2, Call("predict_proba", x)))
                ELSE Computed(prediction,
                              Index(ModelPredictProba(Val(model), x), prediction),
                              Append(c2, Call("predict_proba", x)))
            ELSE IF HasAttr(Val(model), "decision_function")
            THEN
                IF ModelRaises(Val(model), "decision_function", x)
                THEN Raised("RuntimeError", Append(c2, Call("decision_function", x)))
                ELSE Computed(prediction,
                              Sigmoid(ModelDecisionFunction(Val(model), x)),
                              Append(c2, Call("decision_function", x)))
            ELSE Computed(prediction, DefaultConfidence, c2)

\* predict without the test for a missing scaler: None has no transform
PredictInference_AlwaysScale(patient) ==
    LET input_data == patient
        c1 == <<Call("transform", input_data)>>
    IN  IF scaler = None
        THEN Raised("AttributeError", <<>>)
        ELSE IF TransformRaises(Val(scaler), input_data)
        THEN Raised("ValueError", c1)
        ELSE
        LET x == Transform(Val(scaler), input_data)
            c2 == Append(c1, Call("predict", x))
        IN  IF ModelRaises(Val(model), "predict", x)
            THEN Raised("RuntimeError", c2)
            ELSE
            LET prediction == ModelPredict(Val(model), x)
            IN  IF HasAttr(Val(model), "predict_proba")
                THEN
                    IF ModelRaises(Val(model), "predict_proba", x)
                    THEN Raised("RuntimeError", Append(c2, Call("predict_proba", x)))
                    ELSE Computed(prediction,
                                  Index(ModelPredictProba(Val(model), x), prediction),
                                  Append(c2, Call("predict_proba", x)))
                ELSE IF HasAttr(Val(model), "decision_function")
                THEN
                    IF ModelRaises(Val(model), "decision_function", x)
                    THEN Raised("RuntimeError", Append(c2, Call("decision_function", x)))
                    ELSE Computed(prediction,
                                  Sigmoid(ModelDecisionFunction(Val(model), x)),
                                  Append(c2, Call("decision_function", x)))
                ELSE Computed(prediction, DefaultConfidence, c2)

\* predict, from the DataFrame to the confidence
PredictInference(patient) ==
    LET input_data == patient
        numeric_cols == DOMAIN input_data
        scaling == scaler # None /\ Cardinality(numeric_cols) > 0
        c1 == IF scaling THEN <<Call("transform", input_data)>> ELSE <<>>
    IN  IF scaling /\ TransformRaises(Val(scaler), input_data)
        THEN Raised("ValueError", c1)
        ELSE
        LET x == IF scaling THEN Transform(Val(scaler), input_data) ELSE input_data
            c2 == Append(c1, Call("predict", x))
        IN  IF ModelRaises(Val(model), "predict", x)
            THEN Raised("RuntimeError", c2)
            ELSE
            LET prediction == ModelPredict(Val(model), x)
            IN  IF HasAttr(Val(model), "predict_proba")
                THEN
                    IF ModelRaises(Val(model), "predict_proba", x)
                    THEN Raised("RuntimeError", Append(c2, Call("predict_proba", x)))
                    ELSE Computed(prediction,
                                  Index(ModelPredictProba(Val(model), x), prediction),
                                  Append(c2, Call("predict_proba", x)))
                ELSE IF HasAttr(Val(model), "decision_function")
                THEN
                    IF ModelRaises(Val(model), "decision_function", x)
                    THEN Raised("RuntimeError", Append(c2, Call("decision_function", x)))
                    ELSE Computed(prediction,
                                  Sigmoid(ModelDecisionFunction(Val(model), x)),
                                  Append(c2, Call("decision_function", x)))
                ELSE Computed(prediction, DefaultConfidence, c2)

\* the body of the loop without the scaler: the raw row goes to the model
BatchInference_Unscaled(patient) ==
    LET x == patient
        c2 == <<Call("predict", x)>>
    IN  IF ModelRaises(Val(model), "predict", x)
        THEN Raised("RuntimeError", c2)
        ELSE
        LET prediction == ModelPredict(Val(model), x)
        IN  IF HasAttr(Val(model), "predict_proba")
            THEN
                IF ModelRaises(Val(model), "predict_proba", x)
                THEN Raised("RuntimeError", Append(c2, Call("predict_proba", x)))
                ELSE Computed(prediction,
                              Index(ModelPredictProba(Val(model), x), prediction),
                              Append(c2, Call("predict_proba", x)))
            ELSE IF HasAttr(Val(model), "decision_function")
            THEN
                IF ModelRaises(Val(model), "decision_function", x)
                THEN Raised("RuntimeError", Append(c2, Call("decision_function", x)))
                ELSE Computed(prediction,
                              Sigmoid(ModelDecisionFunction(Val(model), x)),
                              Append(c2, Call("decision_function", x)))
            ELSE Computed(prediction, DefaultConfidence, c2)

\* predict_batch, the body of the loop from the DataFrame to the confidence
BatchInference(patient) ==
    LET input_data == patient
        numeric_cols == DOMAIN input_data
        scaling == scaler # None /\ Cardinality(numeric_cols) > 0
        c1 == IF scaling THEN <<Call("transform", input_data)>> ELSE <<>>
    IN  IF scaling /\ TransformRaises(Val(scaler), input_data)
        THEN Raised("ValueError", c1)
        ELSE
        LET x == IF scaling THEN Transform(Val(scaler), input_data) ELSE input_data
            c2 == Append(c1, Call("predict", x))
        IN  IF ModelRaises(Val(model), "predict", x)
            THEN Raised("RuntimeError", c2)
            ELSE
            LET prediction == ModelPredict(Val(model), x)
            IN  IF HasAttr(Val(model), "predict_proba")
                THEN
                    IF ModelRaises(Val(model), "predict_proba", x)
                    THEN Raised("RuntimeError", Append(c2, Call("predict_proba", x)))
                    ELSE Computed(prediction,
                                  Index(ModelPredictProba(Val(model), x), prediction),
                                  Append(c2, Call("predict_proba", x)))
                ELSE IF HasAttr(Val(model), "decision_function")
                THEN
                    IF ModelRaises(Val(model), "decision_function", x)
                    THEN Raised("RuntimeError", Append(c2, Call("decision_function", x)))
                    ELSE Computed(prediction,
                                  Sigmoid(ModelDecisionFunction(Val(model), x)),
                                  Append(c2, Call("decision_function", x)))
                ELSE Computed(prediction, DefaultConfidence, c2)

\* what an endpoint answers and the metrics it leaves
Outcome(status, resp, calls, pc, cs, pl, ec) ==
    [status |-> status, resp |-> resp, calls |-> calls, prediction_count |-> pc,
     confidence_scores |-> cs, prediction_latency |-> pl, error_count |-> ec]

\* an endpoint that touches no metric
Plain(status, resp) ==
    Outcome(status, resp, <<>>, prediction_count, confidence_scores,
            prediction_latency, error_count)

\* FastAPI answers a body that does not build the declared parameter itself,
\* before the endpoint function is called
Unprocessable == Plain(422, [detail |-> "validation error"])

\* PredictionResponse(prediction=int(prediction), confidence=..., model_name=...)
PredictionResponse(prediction, confidence, name) ==
    [prediction |-> prediction, confidence |-> confidence, model_name |-> name]

\* "disease" if prediction == 1 else "no_disease"
PredictionResult(prediction) == IF prediction = 1 THEN "disease" ELSE "no_disease"

\* ModelNotLoaded without the guard: model.predict on None raises
\* AttributeError inside the try block
ModelNotLoaded_Unguarded(endpoint) ==
    Outcome(500, [detail |-> "Prediction error"], <<>>, prediction_count,
            confidence_scores, Bump(prediction_latency, <<endpoint>>),
            Bump(error_count, <<"AttributeError", endpoint>>))

\* if model is None: count the error, raise HTTPException(status_code=503)
ModelNotLoaded(endpoint) ==
    Outcome(503, [detail |-> "Model not loaded"], <<>>, prediction_count,
            confidence_scores, prediction_latency,
            Bump(error_count, <<"ModelNotLoaded", endpoint>>))

\* POST /predict
predict(body) ==
    IF ~PatientData(body) THEN Unprocessable
    ELSE IF model = None THEN ModelNotLoaded("/predict")
    ELSE
    LET r == PredictInference(body)
    IN  IF r.raised
        THEN Outcome(500, [detail |-> "Prediction error"], r.calls, prediction_count,
                     confidence_scores, Bump(prediction_latency, <<"/predict">>),
                     Bump(error_count, <<r.exc, "/predict">>))
        ELSE Outcome(200,
                     PredictionResponse(r.prediction, r.confidence, Val(model_name)),
                     r.calls,
                     Bump(prediction_count,
                          <<PredictionResult(r.prediction), Val(model_name)>>),
                     Bump(confidence_scores,
                          <<PredictionResult(r.prediction), r.confidence>>),
                     Bump(prediction_latency, <<"/predict">>),
                     error_count)

\* the for loop with predictions.insert(0, ...) in place of predictions.append
RECURSIVE BatchLoop_Prepend(_, _, _)
BatchLoop_Prepend(patients, i, acc) ==
    IF i > Len(patients) THEN acc
    ELSE
    LET r == BatchInference(patients[i])
    IN  IF r.raised
        THEN [acc EXCEPT !.raised = TRUE, !.exc = r.exc, !.calls = @ \o r.calls]
        ELSE BatchLoop_Prepend(patients, i + 1,
                [acc EXCEPT
                    !.calls = @ \o r.calls,
                    !.prediction_count =
                        Bump(@, <<PredictionResult(r.prediction), Val(model_name)>>),
                    !.confidence_scores =
                        Bump(@, <<PredictionResult(r.prediction), r.confidence>>),
                    !.predictions =
                        <<PredictionResponse(r.prediction, r.confidence,
                                             Val(model_name))>> \o @])

\* the for loop skipping a patient whose inference raises
RECURSIVE BatchLoop_SkipFailed(_, _, _)
BatchLoop_SkipFailed(patients, i, acc) ==
    IF i > Len(patients) THEN acc
    ELSE
    LET r == BatchInference(patients[i])
    IN  IF r.raised
        THEN BatchLoop_SkipFailed(patients, i + 1, [acc EXCEPT !.calls = @ \o r.calls])
        ELSE BatchLoop_SkipFailed(patients, i + 1,
                [acc EXCEPT
                    !.calls = @ \o r.calls,
                    !.prediction_count =
                        Bump(@, <<PredictionResult(r.prediction), Val(model_name)>>),
                    !.confidence_scores =
                        Bump(@, <<PredictionResult(r.prediction), r.confidence>>),
                    !.predictions =
                        Append(@, PredictionResponse(r.prediction, r.confidence,
                                                     Val(model_name)))])

\* the for loop of predict_batch from patient i on; acc holds the predictions
\* appended, the calls made and the metrics recorded so far
RECURSIVE BatchLoop(_, _, _)
BatchLoop(patients, i, acc) ==
    IF i > Len(patients) THEN acc
    ELSE
    LET r == BatchInference(patients[i])
    IN  IF r.raised
        THEN [acc EXCEPT !.raised = TRUE, !.exc = r.exc, !.calls = @ \o r.calls]
        ELSE BatchLoop(patients, i + 1,
                [acc EXCEPT
                    !.calls = @ \o r.calls,
                    !.prediction_count =
                        Bump(@, <<PredictionResult(r.prediction), Val(model_name)>>),
                    !.confidence_scores =
                        Bump(@, <<PredictionResult(r.prediction), r.confidence>>),
                    !.predictions =
                        Append(@, PredictionResponse(r.prediction, r.confidence,
                                                     Val(model_name)))])

\* POST /predict/batch
predict_batch(patients) ==
    IF ~BatchPatientData(patients) THEN Unprocessable
    ELSE IF model = None THEN ModelNotLoaded("/predict/batch")
    ELSE
    LET r == BatchLoop(patients, 1,
                       [raised |-> FALSE, exc |-> "", predictions |-> <<>>,
                        calls |-> <<>>, prediction_count |-> prediction_count,
                        confidence_scores |-> confidence_scores])
    IN  IF r.raised
        THEN Outcome(500, [detail |-> "Batch prediction error"], r.calls,
                     r.prediction_count, r.confidence_scores,
                     Bump(prediction_latency, <<"/predict/batch">>),
                     Bump(error_count, <<r.exc, "/predict/batch">>))
        ELSE Outcome(200,
                     [predictions |-> r.predictions, count |-> Len(r.predictions)],
                     r.calls, r.prediction_count, r.confidence_scores,
                     Bump(prediction_latency, <<"/predict/batch">>),
                     error_count)

\* GET /
root ==
    Plain(200, [message |-> "Heart Disease Prediction API", version |-> "1.0.0",
                model_loaded |-> model # None,
                model_name |-> IF model # None THEN model_name ELSE None])

\* GET /health answering from the model_loaded gauge
health_check_FromGauge ==
    Plain(200, [status |-> "healthy", model_loaded |-> model_loaded = 1,
                model_name |-> IF model_loaded = 1 THEN model_name ELSE None])

\* GET /health
health_check ==
    Plain(200, [status |-> "healthy", model_loaded |-> model # None,
                model_name |-> IF model # None THEN model_name ELSE None])

\* GET /model/info without the guard: type(None).__name__ is answered
model_info_Unguarded ==
    Plain(200, [model_name |-> model_name,
                model_type |-> IF model = None THEN "NoneType" ELSE Val(model).type,
                features |-> FieldNames])

\* GET /model/info
model_info ==
    IF model = None THEN Plain(503, [detail |-> "Model not loaded"])
    ELSE Plain(200, [model_name |-> model_name, model_type |-> Val(model).type,
                     features |-> <<"age", "sex", "cp", "trestbps", "chol", "fbs",
                                    "restecg", "thalach", "exang", "oldpeak", "slope",
                                    "ca", "thal">>])

\* GET /metrics
metrics == Plain(200, [media_type |-> "text/plain"])

---------------------------------------------------------------------------
(* PrometheusMiddleware.dispatch around an endpoint *)

\* the middleware reached by the handler's exception: its except branch counts
\* the failure a second time
Dispatch_CountsError(method, path, body, out) ==
    /\ started
    /\ served < MaxRequests
    /\ served' = served + 1
    /\ IF path = "/metrics"
       THEN UNCHANGED <<active_requests, request_count, request_duration>>
       ELSE /\ active_requests' = (active_requests + 1) - 1
            /\ request_count' = Bump(request_count, <<method, path, out.status>>)
            /\ request_duration' = Bump(request_duration, <<method, path>>)
    /\ prediction_count' = out.prediction_count
    /\ confidence_scores' = out.confidence_scores
    /\ prediction_latency' = out.prediction_latency
    /\ error_count' = IF out.status = 500
                      THEN Bump(out.error_count, <<"HTTPException", path>>)
                      ELSE out.error_count
    /\ last' = Record(path, method, body, out.status, out.resp, out.calls)
    /\ UNCHANGED <<model, model_name, scaler, model_loaded, model_info_metric,
                   started, reloads, disk, df, in_flight>>

\* request handling that drops the scaler after a request that failed
Dispatch_DropsScaler(method, path, body, out) ==
    /\ started
    /\ served < MaxRequests
    /\ served' = served + 1
    /\ IF path = "/metrics"
       THEN UNCHANGED <<active_requests, request_count, request_duration>>
       ELSE /\ active_requests' = (active_requests + 1) - 1
            /\ request_count' = Bump(request_count, <<method, path, out.status>>)
            /\ request_duration' = Bump(request_duration, <<method, path>>)
    /\ prediction_count' = out.prediction_count
    /\ confidence_scores' = out.confidence_scores
    /\ prediction_latency' = out.prediction_latency
    /\ error_count' = out.error_count
    /\ last' = Record(path, method, body, out.status, out.resp, out.calls)
    /\ scaler' = IF out.status = 500 THEN None ELSE scaler
    /\ UNCHANGED <<model, model_name, model_loaded, model_info_metric,
                   started, reloads, disk, df, in_flight>>

\* the middleware recording only the requests answered below 400
Dispatch_SuccessOnly(method, path, body, out) ==
    /\ started
    /\ served < MaxRequests
    /\ served' = served + 1
    /\ IF path = "/metrics" \/ out.status >= 400
       THEN UNCHANGED <<active_requests, request_count, request_duration>>
       ELSE /\ active_requests' = (active_requests + 1) - 1
            /\ request_count' = Bump(request_count, <<method, path, out.status>>)
            /\ request_duration' = Bump(request_duration, <<method, path>>)
    /\ prediction_count' = out.prediction_count
    /\ confidence_scores' = out.confidence_scores
    /\ prediction_latency' = out.prediction_latency
    /\ error_count' = out.error_count
    /\ last' = Record(path, method, body, out.status, out.resp, out.calls)
    /\ UNCHANGED <<model, model_name, scaler, model_loaded, model_info_metric,
                   started, reloads, disk, df, in_flight>>

\* One request, from the middleware's entry to its exit.  Every endpoint turns
\* its failures into a response (HTTPException), so call_next returns and the
\* except branch of the middleware is not taken.
Dispatch(method, path, body, out) ==
    /\ started
    /\ served < MaxRequests
    /\ served' = served + 1
    /\ IF path = "/metrics"
       THEN UNCHANGED <<active_requests, request_count, request_duration>>
       ELSE /\ active_requests' = (active_requests + 1) - 1
            /\ request_count' = Bump(request_count, <<method, path, out.status>>)
            /\ request_duration' = Bump(request_duration, <<method, path>>)
    /\ prediction_count' = out.prediction_count
    /\ confidence_scores' = out.confidence_scores
    /\ prediction_latency' = out.prediction_latency
    /\ error_count' = out.error_count
    /\ last' = Record(path, method, body, out.status, out.resp, out.calls)
    /\ UNCHANGED <<model, model_name, scaler, model_loaded, model_info_metric,
                   started, reloads, disk, df, in_flight>>

Root == Dispatch("GET", "/", <<>>, root)

HealthCheck == Dispatch("GET", "/health", <<>>, health_check)

ModelInfo == Dispatch("GET", "/model/info", <<>>, model_info)

Metrics == Dispatch("GET", "/metrics", <<>>, metrics)

Predict == \E body \in PredictBodies : Dispatch("POST", "/predict", <<body>>, predict(body))

PredictBatch ==
    \E patients \in BatchBodies :
        Dispatch("POST", "/predict/batch", patients, predict_batch(patients))

Reload == \E model_path \in ModelPaths : LoadModel(model_path)

\* POST /predict with the bodies that probe the schema
PredictProbe ==
    \E body \in ValidatorBodies : Dispatch("POST", "/predict", <<body>>, predict(body))

---------------------------------------------------------------------------
(* The service *)

\* the module as imported: no model, empty metrics; the default artifacts are on
\* disk (after a training run), or not (a fresh checkout), or the default model
\* is there with an unreadable scaler file
Init ==
    /\ model = None
    /\ model_name = None
    /\ scaler = None
    /\ request_count = EmptyBag
    /\ request_duration = EmptyBag
    /\ prediction_count = EmptyBag
    /\ prediction_latency = EmptyBag
    /\ confidence_scores = EmptyBag
    /\ error_count = EmptyBag
    /\ model_loaded = 0
    /\ active_requests = 0
    /\ model_info_metric = None
    /\ started = FALSE
    /\ served = 0
    /\ reloads = 0
    /\ disk \in {OtherArtifacts, OtherArtifacts \cup DefaultArtifacts,
                 OtherArtifacts \cup UnreadableScalerArtifacts}
    /\ df = DataFrame(<<>>, <<>>)
    /\ in_flight = {}
    /\ last = Record("import", "", <<>>, 0, [raised |-> ""], <<>>)

Next ==
    \/ StartupEvent
    \/ Reload
    \/ Root
    \/ HealthCheck
    \/ ModelInfo
    \/ Metrics
    \/ Predict
    \/ PredictBatch

Spec == Init /\ [][Next]_vars

\* the service after startup, asked to predict the bodies that probe the schema
NextValidator ==
    \/ StartupEvent
    \/ PredictProbe

SpecValidator == Init /\ [][NextValidator]_vars

---------------------------------------------------------------------------
(* Training side: save_final_model writes the files load_model reads *)

\* A str is a sequence of one-character strings.

UpperCase == <<"A", "B", "C", "D", "E", "F", "G", "H", "I", "J", "K", "L", "M",
               "N", "O", "P", "Q", "R", "S", "T", "U", "V", "W", "X", "Y", "Z">>

LowerCase == <<"a", "b", "c", "d", "e", "f", "g", "h", "i", "j", "k", "l", "m",
               "n", "o", "p", "q", "r", "s", "t", "u", "v", "w", "x", "y", "z">>

\* str.replace(old, new) on single characters
StrReplace(str, old, new) ==
    [i \in 1..Len(str) |-> IF str[i] = old THEN new ELSE str[i]]

\* str.lower()
StrLower(str) ==
    [i \in 1..Len(str) |->
        IF \E k \in 1..Len(UpperCase) : UpperCase[k] = str[i]
        THEN LowerCase[CHOOSE k \in 1..Len(UpperCase) : UpperCase[k] = str[i]]
        ELSE str[i]]

\* the characters joined into the string a path is built from
RECURSIVE Join(_)
Join(str) == IF str = <<>> THEN "" ELSE Head(str) \o Join(Tail(str))

\* safe_name without lower(): the spaces are replaced, the case is kept
SafeName_KeepsCase(name) == Join(StrReplace(name, " ", "_"))

\* safe_name = model_name.replace(" ", "_").lower()
SafeName(name) == Join(StrLower(StrReplace(name, " ", "_")))

\* the model names save_final_model is called with
ModelNames ==
    {<<"L", "o", "g", "i", "s", "t", "i", "c", " ",
       "R", "e", "g", "r", "e", "s", "s", "i", "o", "n">>,
     <<"t", "e", "s", "t", "_", "m", "o", "d", "e", "l">>}

\* the output directories save_final_model is called with
OutputDirs == {"artifacts", "."}

\* the scaler keyword of a call: left out, or given as None or as a scaler
ScalerArgs ==
    {[given |-> FALSE, value |-> None],
     [given |-> TRUE, value |-> None],
     [given |-> TRUE, value |-> Some(FittedScaler)]}

\* open(path, "wb") and pickle.dump(obj, f): the file is created or overwritten
Write(files, path, obj) ==
    {f \in files : f.path # path} \cup {Pickled(path, obj)}

\* save_final_model(model, model_name, output_dir, save_pickle, ..., scaler=...).
\* The function declares no scaler parameter, so a call that passes the keyword
\* raises TypeError before the body runs.
SaveFinalModel ==
    \E m \in {LogisticRegression, RandomForestClassifier}, name \in ModelNames,
       output_dir \in OutputDirs, save_pickle \in BOOLEAN, scaler_arg \in ScalerArgs :
        LET args == [model |-> m, model_name |-> name, output_dir |-> output_dir,
                     save_pickle |-> save_pickle, scaler |-> scaler_arg]
            pkl_path == Pkl(output_dir, SafeName(name))
        IN  /\ Cardinality(disk) < MaxFiles
            /\ IF scaler_arg.given
               THEN /\ disk' = disk
                    /\ last' = Record("save_final_model", "", args, 0,
                                      [raised |-> "TypeError"], <<>>)
               ELSE /\ disk' = IF save_pickle THEN Write(disk, pkl_path, m) ELSE disk
                    /\ last' = Record("save_final_model", "", args, 0,
                                      [raised |-> ""], <<>>)
            /\ UNCHANGED <<model, model_name, scaler, request_count, request_duration,
                           prediction_count, prediction_latency, confidence_scores,
                           error_count, model_loaded, active_requests,
                           model_info_metric, started, served, reloads, df, in_flight>>

\* load_model on a file that is on disk
LoadSaved == \E f \in disk : LoadModel(f.path)

\* a fresh checkout: nothing trained yet, the service module imported
InitTraining ==
    /\ model = None
    /\ model_name = None
    /\ scaler = None
    /\ request_count = EmptyBag
    /\ request_duration = EmptyBag
    /\ prediction_count = EmptyBag
    /\ prediction_latency = EmptyBag
    /\ confidence_scores = EmptyBag
    /\ error_count = EmptyBag
    /\ model_loaded = 0
    /\ active_requests = 0
    /\ model_info_metric = None
    /\ started = FALSE
    /\ served = 0
    /\ reloads = 0
    /\ disk = {}
    /\ df = DataFrame(<<>>, <<>>)
    /\ in_flight = {}
    /\ last = Record("import", "", <<>>, 0, [raised |-> ""], <<>>)

NextTraining ==
    \/ SaveFinalModel
    \/ StartupEvent
    \/ LoadSaved

SpecTraining == InitTraining /\ [][NextTraining]_vars

---------------------------------------------------------------------------
(* Data pipeline (ci_train.py: validate, clean, prepare features) *)

\* the service and the disk are left alone by the pipeline functions
service == <<model, model_name, scaler, request_count, request_duration,
             prediction_count, prediction_latency, confidence_scores, error_count,
             model_loaded, active_requests, model_info_metric, started, served,
             reloads, disk, in_flight>>

\* validation_results = validate_heart_data(df)
Validate ==
    /\ last' = Record("validate_heart_data", "", df, 0,
                      Returned(validate_heart_data(df)), <<>>)
    /\ UNCHANGED <<service, df>>

\* df = clean_and_preprocess_heart_data(df)
Clean ==
    LET result == clean_and_preprocess_heart_data(df)
    IN  /\ df' = IF result.raised = "" THEN result.value ELSE df
        /\ last' = Record("clean_and_preprocess_heart_data", "", df, 0, result, <<>>)
        /\ UNCHANGED service

\* the service module imported, a raw frame read
InitPipeline ==
    /\ model = None
    /\ model_name = None
    /\ scaler = None
    /\ request_count = EmptyBag
    /\ request_duration = EmptyBag
    /\ prediction_count = EmptyBag
    /\ prediction_latency = EmptyBag
    /\ confidence_scores = EmptyBag
    /\ error_count = EmptyBag
    /\ model_loaded = 0
    /\ active_requests = 0
    /\ model_info_metric = None
    /\ started = FALSE
    /\ served = 0
    /\ reloads = 0
    /\ disk = {}
    /\ df \in RawFrames \cup ValidationFrames
    /\ in_flight = {}
    /\ last = Record("import", "", <<>>, 0, [raised |-> ""], <<>>)

\* the scaler the last call of prepare_ml_features returned, if any
Held ==
    IF last.op = "prepare_ml_features" /\ last.resp.raised = ""
    THEN {last.resp.value.scaler} ELSE {}

\* the identity of a new object: one no live object has
Fresh == CHOOSE n \in 1..(Cardinality(FittedEarlier) + 2) :
            /\ \A s \in FittedEarlier \cup Held : s.id # n
            /\ \A m \in 1..(n - 1) : \E s \in FittedEarlier \cup Held : s.id = m

\* X, y, scaler = prepare_ml_features(df) or prepare_ml_features(df, scaler=...)
\* on a frame without missing values
PrepareFeatures ==
    \E scaler_arg \in {None} \cup {Some(s) : s \in FittedEarlier \cup Held} :
        /\ \A i \in RowIndex(df) : \A c \in DOMAIN df.rows[i] :
              df.rows[i][c] # NaN /\ df.rows[i][c] # QuestionMark
        /\ last' = Record("prepare_ml_features", "", [df |-> df, scaler |-> scaler_arg], 0,
                          prepare_ml_features(df, scaler_arg, Fresh), <<>>)
        /\ UNCHANGED <<service, df>>

NextPipeline ==
    \/ Validate
    \/ Clean
    \/ PrepareFeatures

SpecPipeline == InitPipeline /\ [][NextPipeline]_vars

---------------------------------------------------------------------------
(* Concurrent requests: dispatch is a coroutine that gives way at call_next *)

\* the requests of the concurrent runs
ConcurrentRequests ==
    {[method |-> "GET", path |-> "/", body |-> <<>>],
     [method |-> "GET", path |-> "/health", body |-> <<>>],
     [method |-> "GET", path |-> "/metrics", body |-> <<>>],
     [method |-> "POST", path |-> "/predict", body |-> <<SamplePatient>>]}

\* what the endpoint function of a request answers when it runs
Endpoint(r) ==
    CASE r.path = "/" -> root
      [] r.path = "/health" -> health_check
      [] r.path = "/metrics" -> metrics
      [] r.path = "/predict" -> predict(r.body[1])

\* dispatch up to its await: a request enters the middleware
Enter ==
    \E req \in ConcurrentRequests :
        /\ started
        /\ served < MaxArrivals
        /\ Cardinality(in_flight) < MaxInFlight
        /\ served' = served + 1
        /\ in_flight' = in_flight \cup {[id |-> served + 1, method |-> req.method,
                                          path |-> req.path, body |-> req.body]}
        /\ active_requests' = IF req.path = "/metrics" THEN active_requests
                              ELSE active_requests + 1
        /\ UNCHANGED <<model, model_name, scaler, request_count, request_duration,
                       prediction_count, prediction_latency, confidence_scores,
                       error_count, model_loaded, model_info_metric, started, reloads,
                       disk, df, last>>

\* call_next returns the response of the endpoint: the try branch and finally
Return(r) ==
    LET out == Endpoint(r)
    IN  /\ in_flight' = in_flight \ {r}
        /\ IF r.path = "/metrics"
           THEN UNCHANGED <<active_requests, request_count, request_duration>>
           ELSE /\ request_count' = Bump(request_count, <<r.method, r.path, out.status>>)
                /\ request_duration' = Bump(request_duration, <<r.method, r.path>>)
                /\ active_requests' = active_requests - 1
        /\ prediction_count' = out.prediction_count
        /\ confidence_scores' = out.confidence_scores
        /\ prediction_latency' = out.prediction_latency
        /\ error_count' = out.error_count
        /\ last' = Record(r.path, r.method, r.body, out.status, out.resp, out.calls)
        /\ UNCHANGED <<model, model_name, scaler, model_loaded, model_info_metric,
                       started, served, reloads, disk, df>>

\* the except branch without the finally block
Propagate_NoFinally(r) ==
    /\ in_flight' = in_flight \ {r}
    /\ IF r.path = "/metrics"
       THEN UNCHANGED <<request_count, request_duration, error_count>>
       ELSE /\ error_count' = Bump(error_count, <<"RuntimeError", r.path>>)
            /\ request_count' = Bump(request_count, <<r.method, r.path, 500>>)
            /\ request_duration' = Bump(request_duration, <<r.method, r.path>>)
    /\ last' = Record(r.path, r.method, r.body, 500, [raised |-> "RuntimeError"], <<>>)
    /\ UNCHANGED <<model, model_name, scaler, prediction_count, prediction_latency,
                   confidence_scores, model_loaded, active_requests, model_info_metric,
                   started, served, reloads, disk, df>>

\* call_next raises: the except branch, then finally, and the exception goes on
Propagate(r) ==
    /\ in_flight' = in_flight \ {r}
    /\ IF r.path = "/metrics"
       THEN UNCHANGED <<active_requests, request_count, request_duration, error_count>>
       ELSE /\ error_count' = Bump(error_count, <<"RuntimeError", r.path>>)
            /\ request_count' = Bump(request_count, <<r.method, r.path, 500>>)
            /\ request_duration' = Bump(request_duration, <<r.method, r.path>>)
            /\ active_requests' = active_requests - 1
    /\ last' = Record(r.path, r.method, r.body, 500, [raised |-> "RuntimeError"], <<>>)
    /\ UNCHANGED <<model, model_name, scaler, prediction_count, prediction_latency,
                   confidence_scores, model_loaded, model_info_metric, started, served,
                   reloads, disk, df>>

Respond == \E r \in in_flight : Return(r)

Fail == \E r \in in_flight : Propagate(r)

NextConcurrent ==
    \/ StartupEvent
    \/ Enter
    \/ Respond
    \/ Fail

SpecConcurrent == Init /\ [][NextConcurrent]_vars

---------------------------------------------------------------------------
(* Properties *)

\* the ranges of the 13 fields as the specification lists them, bounds included
InRange(f, v) ==
    CASE f = "age" -> v >= 0 /\ v <= 120
      [] f = "sex" -> v \in {0, 1}
      [] f = "cp" -> v >= 1 /\ v <= 4
      [] f = "trestbps" -> v >= 0
      [] f = "chol" -> v >= 0
      [] f = "fbs" -> v \in {0, 1}
      [] f = "restecg" -> v >= 0 /\ v <= 2
      [] f = "thalach" -> v >= 0
      [] f = "exang" -> v \in {0, 1}
      [] f = "oldpeak" -> v >= 0
      [] f = "slope" -> v >= 1 /\ v <= 3
      [] f = "ca" -> v >= 0 /\ v <= 3
      [] f = "thal" -> v >= 3 /\ v <= 7

TheFields ==
    {"age", "sex", "cp", "trestbps", "chol", "fbs", "restecg", "thalach", "exang",
     "oldpeak", "slope", "ca", "thal"}

\* all 13 fields are present and each lies in its range
ValidRecord(r) ==
    /\ TheFields \subseteq DOMAIN r
    /\ \A f \in TheFields : InRange(f, r[f])

\* the last operation was a prediction request
PredictionRequest == last.op \in {"/predict", "/predict/batch"}

\* every record of the last request is valid
AllValid == \A i \in 1..Len(last.body) : ValidRecord(last.body[i])

C2_Invalid422 ==
    (last.op = "/predict" /\ ~ValidRecord(last.body[1])) => last.status = 422

\* age = -5 with a model loaded: answered 422
C2_Witness ==
    /\ last.op = "/predict"
    /\ model # None
    /\ "age" \in DOMAIN last.body[1]
    /\ last.body[1]["age"] = -5
    /\ Fields \subseteq DOMAIN last.body[1]
    /\ last.status = 422

\* C3: a prediction request with an invalid record makes no call of
\* scaler.transform, model.predict, predict_proba or decision_function, for any
\* of its records.
C3_NoCallOnInvalid ==
    (PredictionRequest /\ ~AllValid) => last.calls = <<>>

\* a batch whose first record is valid and whose second is not, with a model loaded
C3_Witness ==
    /\ last.op = "/predict/batch"
    /\ model # None
    /\ Len(last.body) = 2
    /\ ValidRecord(last.body[1])
    /\ ~ValidRecord(last.body[2])
    /\ last.calls = <<>>

\* C4: the validator accepts a record exactly when all 13 fields are present and
\* in range, bounds included; the all-minimum and the all-maximum record are
\* accepted and, with a model loaded, predicted with status 200 (unless a call
\* of the scaler or the model raises, which is answered 500).
C4_ValidatorRanges ==
    last.op = "/predict" =>
        /\ (last.status = 422) = ~ValidRecord(last.body[1])
        /\ (last.body[1] \in {MinPatient, MaxPatient} /\ model # None)
              => last.status \in {200, 500}
        /\ (last.body[1] \in {MinPatient, MaxPatient} /\ model # None
                /\ \A i \in 1..Len(last.calls) :
                      /\ last.calls[i].fn = "transform"
                            => ~TransformRaises(Val(scaler), last.calls[i].x)
                      /\ last.calls[i].fn # "transform"
                            => ~ModelRaises(Val(model), last.calls[i].fn, last.calls[i].x))
              => last.status = 200

\* the all-maximum record predicted with status 200
C4_Witness ==
    /\ last.op = "/predict"
    /\ last.body = <<MaxPatient>>
    /\ model # None
    /\ last.status = 200

\* the calls of fn the last request made, in order
CallsOf(fn) == SelectSeq(last.calls, LAMBDA c : c.fn = fn)

\* the last request was a /predict answered 200
Predicted == last.op = "/predict" /\ last.status = 200

\* np.argmax of a two-class probability vector: the first maximum, from 0
ArgMax(probabilities) == IF probabilities[2] > probabilities[1] THEN 1 ELSE 0

\* the probability vector predict_proba returned to the last /predict
ReturnedProbabilities == ModelPredictProba(Val(model), CallsOf("predict_proba")[1].x)

\* the class model.predict returned to the last /predict
ReturnedLabel == ModelPredict(Val(model), CallsOf("predict")[1].x)

\* the score decision_function returned to the last /predict
ReturnedScore == ModelDecisionFunction(Val(model), CallsOf("decision_function")[1].x)

\* C5 as stated: with a classifier that exposes class probabilities, the label
\* is the argmax of the returned probability vector and the confidence is the
\* probability of that label.
C5_LabelIsArgMax ==
    (Predicted /\ HasAttr(Val(model), "predict_proba")) =>
        /\ last.resp.prediction = ArgMax(ReturnedProbabilities)
        /\ last.resp.confidence = ReturnedProbabilities[ArgMax(ReturnedProbabilities) + 1]

\* C5, amended: with a classifier that exposes class probabilities, the label
\* is the class model.predict returns and the confidence is the entry of the
\* returned probability vector for that label (predict -> 1 with
\* predict_proba -> [0.3, 0.7] yields prediction 1, confidence 0.7); the label
\* is the argmax whenever the classifier's predict agrees with it.
C5_LabelIsPredict ==
    (Predicted /\ HasAttr(Val(model), "predict_proba")) =>
        /\ Len(CallsOf("predict")) = 1
        /\ Len(CallsOf("predict_proba")) = 1
        /\ last.resp.prediction = ReturnedLabel
        /\ last.resp.confidence = ReturnedProbabilities[last.resp.prediction + 1]
        /\ (ReturnedLabel = 1 /\ ReturnedProbabilities = <<3000, 7000>>)
              => (last.resp.prediction = 1 /\ last.resp.confidence = 7000)
        /\ ReturnedLabel = ArgMax(ReturnedProbabilities)
              => last.resp.prediction = ArgMax(ReturnedProbabilities)

\* the example of the specification: predict -> 1, predict_proba -> [0.3, 0.7]
C5_Witness ==
    /\ Predicted
    /\ HasAttr(Val(model), "predict_proba")
    /\ last.body = <<SamplePatient>>
    /\ ReturnedProbabilities = <<3000, 7000>>
    /\ last.resp.prediction = 1
    /\ last.resp.confidence = 7000

Predictions ==
    IF last.op = "/predict" THEN <<last.resp>> ELSE last.resp.predictions

\* C7: with a classifier that exposes neither class probabilities nor a decision
\* score, every successful prediction, single or batch item, has confidence 1.0.
C7_DefaultConfidence ==
    (PredictionRequest /\ last.status = 200
        /\ ~HasAttr(Val(model), "predict_proba")
        /\ ~HasAttr(Val(model), "decision_function")) =>
        \A i \in 1..Len(Predictions) : Predictions[i].confidence = 10000

\* a batch of two answered by such a classifier
C7_Witness ==
    /\ last.op = "/predict/batch"
    /\ last.status = 200
    /\ ~HasAttr(Val(model), "predict_proba")
    /\ ~HasAttr(Val(model), "decision_function")
    /\ Len(last.resp.predictions) = 2
    /\ last.resp.predictions[2].confidence = 10000

\* the classifier's probability, or probability-like score, of class label for
\* the row of the last /predict
ScoreOfClass(label) ==
    IF HasAttr(Val(model), "predict_proba")
    THEN ReturnedProbabilities[label + 1]
    ELSE IF HasAttr(Val(model), "decision_function")
    THEN IF label = 1 THEN Sigmoid(ReturnedScore) ELSE One - Sigmoid(ReturnedScore)
    ELSE One

\* C8: a 200 response of /predict carries a prediction in {0, 1} and a confidence
\* in [0, 1], and the confidence is the probability (or probability-like score)
\* of the predicted class.
C8_ConfidenceOfPredictedClass ==
    Predicted =>
        /\ last.resp.prediction \in {0, 1}
        /\ last.resp.confidence >= 0
        /\ last.resp.confidence <= One
        /\ last.resp.confidence = ScoreOfClass(last.resp.prediction)

\* the last request was a /predict/batch
Batch == last.op = "/predict/batch"

\* C9: with a model loaded and N valid records, the predictions of
\* /predict/batch equal, item by item and in order, the responses of N /predict
\* calls on those records, and the batch is answered 200 exactly when all N
\* calls are.
C9_BatchEqualsSingles ==
    (Batch /\ model # None /\ AllValid) =>
        LET N == Len(last.body)
        IN  /\ (last.status = 200) = (\A i \in 1..N : predict(last.body[i]).status = 200)
            /\ last.status = 200 =>
                  /\ Len(last.resp.predictions) = N
                  /\ \A i \in 1..N :
                        last.resp.predictions[i] = predict(last.body[i]).resp

\* two different patients, scaled, answered 200 with two different predictions
C9_Witness ==
    /\ Batch
    /\ last.status = 200
    /\ scaler # None
    /\ Len(last.body) = 2
    /\ last.body[1] # last.body[2]
    /\ last.resp.predictions[1] # last.resp.predictions[2]
    /\ last.resp.predictions[2] = predict(last.body[2]).resp

\* the row the model is given for a patient
RowOf(patient) ==
    IF scaler = None THEN patient ELSE Transform(Val(scaler), patient)

\* C10: a 200 response of /predict/batch has one prediction per input record, in
\* input order, and count equal to the number of records; an empty patients
\* list is valid and, with a model loaded, yields predictions [] and count 0
\* with status 200.
C10_OnePerRecord ==
    Batch =>
        /\ last.status = 200 =>
              /\ Len(last.resp.predictions) = Len(last.body)
              /\ last.resp.count = Len(last.body)
              /\ \A i \in 1..Len(last.body) :
                    last.resp.predictions[i].prediction
                        = ModelPredict(Val(model), RowOf(last.body[i]))
        /\ last.body = <<>> => last.status # 422
        /\ (last.body = <<>> /\ model # None) =>
              /\ last.status = 200
              /\ last.resp.predictions = <<>>
              /\ last.resp.count = 0

\* two patients answered in order with the labels 0 and 1
C10_Witness ==
    /\ Batch
    /\ last.status = 200
    /\ last.body = <<SamplePatient, SecondPatient>>
    /\ last.resp.count = 2
    /\ last.resp.predictions[1].prediction = 0
    /\ last.resp.predictions[2].prediction = 1

\* the empty batch answered 200 with no prediction
C10_WitnessEmpty ==
    /\ Batch
    /\ last.body = <<>>
    /\ last.status = 200
    /\ last.resp.count = 0

\* C11: GET /health always answers 200 with status "healthy"; its model_loaded
\* field is true exactly when a model is loaded, and model_name is null whenever
\* model_loaded is false; GET / reports the same two fields with the same values.
C11_HealthAlways200 ==
    /\ last.op = "/health" =>
          /\ last.status = 200
          /\ last.resp.status = "healthy"
          /\ last.resp.model_loaded = (model # None)
          /\ ~last.resp.model_loaded => last.resp.model_name = None
    /\ last.op = "/" =>
          /\ last.status = 200
          /\ last.resp.model_loaded = health_check.resp.model_loaded
          /\ last.resp.model_name = health_check.resp.model_name

\* GET /health answered while a model is loaded whose load raised on the scaler
\* file, so that the model_loaded gauge is still 0
C11_Witness ==
    /\ last.op = "/health"
    /\ last.status = 200
    /\ model # None
    /\ model_loaded = 0
    /\ last.resp.model_loaded
    /\ last.resp.model_name # None

\* GET /health answered with no model loaded
C11_WitnessNoModel ==
    /\ last.op = "/health"
    /\ last.status = 200
    /\ model = None
    /\ ~last.resp.model_loaded
    /\ last.resp.model_name = None

\* C12: GET /model/info answers 503 exactly when no model is loaded; otherwise
\* it answers 200 with model_name, model_type and the 13 feature names in the
\* order age, sex, cp, trestbps, chol, fbs, restecg, thalach, exang, oldpeak,
\* slope, ca, thal, which is the field order of the request schema.
C12_ModelInfo ==
    last.op = "/model/info" =>
        /\ (last.status = 503) = (model = None)
        /\ model # None =>
              /\ last.status = 200
              /\ last.resp.model_name = model_name
              /\ last.resp.model_type = Val(model).type
              /\ last.resp.features = <<"age", "sex", "cp", "trestbps", "chol", "fbs",
                                        "restecg", "thalach", "exang", "oldpeak",
                                        "slope", "ca", "thal">>
              /\ last.resp.features = FieldNames

\* GET /model/info answered 200 for a random forest loaded after startup
C12_Witness ==
    /\ last.op = "/model/info"
    /\ last.status = 200
    /\ last.resp.model_type = "RandomForestClassifier"
    /\ Len(last.resp.features) = 13

\* GET /model/info answered 503 with no model loaded
C12_WitnessNoModel ==
    /\ last.op = "/model/info"
    /\ model = None
    /\ last.status = 503

\* the row a call of the request raised on, if any: scaler.transform on columns
\* other than the fitted ones, or a model method that raises on its row
CallRaised(c) ==
    IF c.fn = "transform"
    THEN scaler # None /\ TransformRaises(Val(scaler), c.x)
    ELSE model # None /\ ModelRaises(Val(model), c.fn, c.x)

\* some call made while serving the last request raised
ProcessingFailed ==
    \E j \in 1..Len(last.calls) : CallRaised(last.calls[j])

\* C13: when the transform or a model call raises while a prediction request is
\* served (for the single record or for the k-th record of a batch), the
\* response is a 500 carrying a detail message and no prediction of any record.
C13_NoPartialResponse ==
    PredictionRequest =>
        /\ ProcessingFailed =>
              /\ last.status = 500
              /\ DOMAIN last.resp = {"detail"}
              /\ last.resp.detail # ""
        /\ last.status = 500 => ProcessingFailed

\* a batch whose first record was predicted and whose second record raised
C13_Witness ==
    /\ Batch
    /\ Len(last.body) = 2
    /\ last.status = 500
    /\ Len(last.calls) > 2
    /\ ~CallRaised(last.calls[2])
    /\ CallRaised(last.calls[Len(last.calls)])
    /\ DOMAIN last.resp = {"detail"}

\* the step serves an HTTP request
RequestServed == served' # served

\* the request of the step is recorded once in the request counter and once in
\* the duration histogram
RecordedOnce ==
    /\ request_count' =
          request_count (+) SetToBag({<<last'.method, last'.op, last'.status>>})
    /\ request_duration' = request_duration (+) SetToBag({<<last'.method, last'.op>>})

\* C14 as stated: every HTTP request, whatever its endpoint and outcome, adds
\* exactly one increment of the request counter keyed by (method, path, status)
\* and exactly one observation of the duration histogram keyed by (method, path).
C14_EveryRequestRecorded ==
    [][RequestServed => RecordedOnce]_vars

\* C14, amended: every HTTP request except those to /metrics adds exactly one
\* increment of the request counter keyed by (method, path, status) and exactly
\* one observation of the duration histogram keyed by (method, path), whatever
\* its outcome; a request to /metrics adds nothing to either.
C14_AllButMetricsRecorded ==
    [][RequestServed =>
          IF last'.op = "/metrics"
          THEN UNCHANGED <<request_count, request_duration>>
          ELSE RecordedOnce]_vars

\* a prediction request answered 500 and recorded under that status
C14_Witness ==
    /\ PredictionRequest
    /\ last.status = 500
    /\ BagIn(<<"POST", last.op, 500>>, request_count)
    /\ BagIn(<<"POST", last.op>>, request_duration)

\* GET /metrics served with nothing recorded for it
C14_WitnessMetrics ==
    /\ last.op = "/metrics"
    /\ last.status = 200
    /\ ~BagIn(<<"GET", "/metrics", 200>>, request_count)
    /\ ~BagIn(<<"GET", "/metrics">>, request_duration)

\* the step serves a prediction request
PredictionServed == RequestServed /\ last'.op \in {"/predict", "/predict/batch"}

\* C15: a prediction request that does not end in a 200 response (422, 503 or
\* 500, including a batch that fails on a later record) leaves the prediction
\* counter and the confidence histogram unchanged.
C15_OnlyOnSuccess ==
    [][(PredictionServed /\ last'.status # 200)
          => UNCHANGED <<prediction_count, confidence_scores>>]_vars

\* the part of C15 the code keeps: every failed prediction request other than a
\* batch that raised after its first record leaves the two metrics unchanged
C15_ExceptLaterRecord ==
    [][(PredictionServed /\ last'.status # 200
            /\ ~(last'.op = "/predict/batch" /\ last'.status = 500))
          => UNCHANGED <<prediction_count, confidence_scores>>]_vars

\* the type name of the exception a raising call raises
ExceptionOf(c) == IF c.fn = "transform" THEN "ValueError" ELSE "RuntimeError"

\* the call of the last request that raised
RaisingCall ==
    last.calls[CHOOSE j \in 1..Len(last.calls) : CallRaised(last.calls[j])]

StartupLoadFailed ==
    /\ started
    /\ reloads = 0
    /\ BagIn(<<"ModelLoadError", "/startup">>, error_count)

\* the service after a failed startup load, as C17 describes it
Degraded ==
    /\ model = None
    /\ last.op = "startup_event" => last.resp.raised = ""
    /\ last.op = "/health" => last.status = 200 /\ ~last.resp.model_loaded
    /\ (PredictionRequest /\ AllValid) => last.status = 503

\* C17: when load_model raises in the startup event, startup_event completes
\* without raising and leaves model None, after which GET /health answers 200
\* with model_loaded false and predictions are answered 503.
C17_StartupFailureLeavesNoModel ==
    StartupLoadFailed => Degraded

\* the part of C17 the code keeps: when load_model raises because the model file
\* is missing, the service is degraded as described
C17_ModelFileUnread ==
    (StartupLoadFailed /\ ~Exists(disk, DefaultModelPath)) => Degraded

\* C18: serving a request on any endpoint, whether it succeeds or fails, leaves
\* model, scaler and model_name unchanged; they change only in a step of
\* load_model (called by the startup event or on its own).
C18_RequestsKeepModel ==
    /\ [][RequestServed => UNCHANGED <<model, model_name, scaler>>]_vars
    /\ [][~UNCHANGED <<model, model_name, scaler>>
            => last'.op \in {"startup_event", "load_model"}]_vars

\* a prediction request that failed with model and scaler loaded
C18_Witness ==
    /\ PredictionRequest
    /\ last.status = 500
    /\ model # None
    /\ scaler # None
    /\ model_name # None

\* the positions of the scaler.transform calls among the calls of the last request
TransformCalls == {j \in 1..Len(last.calls) : last.calls[j].fn = "transform"}

\* the transform call whose record the model call at position j belongs to
RecordCall(j) ==
    CHOOSE k \in TransformCalls :
        k < j /\ \A m \in (k + 1)..(j - 1) : m \notin TransformCalls

\* the number of records reached when the call at position j was made
RecordIndex(j) == Cardinality({k \in TransformCalls : k <= j})

\* C19: with a scaler loaded, every record of a prediction request (single or
\* batch item) that is processed goes through scaler.transform exactly once, with
\* all 13 features in the fitted column order, before the model is invoked, and
\* predict, predict_proba and decision_function are all given the transformed
\* record.
C19_ScaledBeforeModel ==
    (PredictionRequest /\ AllValid /\ model # None /\ scaler # None) =>
        /\ last.status = 200 => Cardinality(TransformCalls) = Len(last.body)
        /\ \A j \in 1..Len(last.calls) :
              IF j \in TransformCalls
              THEN /\ last.calls[j].x = last.body[RecordIndex(j)]
                   /\ Columns(last.calls[j].x) = FieldNames
                   /\ Len(FieldNames) = 13
                   /\ (Val(scaler).type = "StandardScaler" /\ ~CallRaised(last.calls[j]))
                         => Columns(last.calls[j].x) = Val(scaler).feature_names_in_
                   /\ j < Len(last.calls) => last.calls[j + 1].fn = "predict"
              ELSE /\ \E k \in TransformCalls : k < j
                   /\ ~CallRaised(last.calls[RecordCall(j)])
                   /\ last.calls[j].x =
                         Transform(Val(scaler), last.calls[RecordCall(j)].x)

\* a /predict answered 200 after transform, predict and predict_proba, the two
\* model calls on a scaled row that differs from the record
C19_Witness ==
    /\ last.op = "/predict"
    /\ last.status = 200
    /\ scaler # None
    /\ Val(scaler).type = "StandardScaler"
    /\ Len(last.calls) = 3
    /\ last.calls[1] = Call("transform", last.body[1])
    /\ last.calls[2].fn = "predict"
    /\ last.calls[3].fn = "predict_proba"
    /\ last.calls[3].x = last.calls[2].x
    /\ last.calls[3].x # last.body[1]

\* C20: with a model loaded and no scaler, a prediction request with valid
\* records is not failed for that reason: scaler.transform is not called, the
\* model is given each record's raw values, and the answer is 200 unless a model
\* call raises.
C20_UnscaledStillServed ==
    (PredictionRequest /\ AllValid /\ model # None /\ scaler = None) =>
        /\ TransformCalls = {}
        /\ \A j \in 1..Len(last.calls) :
              \E i \in 1..Len(last.body) : last.calls[j].x = last.body[i]
        /\ last.status = IF ProcessingFailed THEN 500 ELSE 200
        /\ last.status = 200 =>
              \A i \in 1..Len(last.body) :
                 \E j \in 1..Len(last.calls) : last.calls[j] = Call("predict", last.body[i])

\* a /predict answered 200 by a model loaded without a scaler, on the raw record
C20_Witness ==
    /\ last.op = "/predict"
    /\ AllValid
    /\ model # None
    /\ scaler = None
    /\ last.status = 200
    /\ last.calls[1] = Call("predict", last.body[1])

\* the loaded scaler was fitted on a feature list other than the 13 fields of the
\* request record, in their order
SchemaMismatch ==
    /\ scaler # None
    /\ Val(scaler).type = "StandardScaler"
    /\ Val(scaler).feature_names_in_ # FieldNames

\* C21: when the loaded transform expects a feature set the request record does
\* not provide, a prediction request with at least one record fails with status
\* 500 on the transform, before any model call: no 200 response is computed
\* from wrongly aligned features.
C21_MismatchIs500 ==
    (PredictionRequest /\ AllValid /\ model # None /\ SchemaMismatch
        /\ Len(last.body) > 0) =>
        /\ last.status = 500
        /\ DOMAIN last.resp = {"detail"}
        /\ Len(last.calls) = 1
        /\ last.calls[1] = Call("transform", last.body[1])
        /\ BagIn(<<"ValueError", last.op>>, error_count)

\* a two-record batch answered 500 on the first transform of a mismatched scaler
C21_Witness ==
    /\ Batch
    /\ AllValid
    /\ Len(last.body) = 2
    /\ model # None
    /\ SchemaMismatch
    /\ last.status = 500
    /\ Len(last.calls) = 1

\* the step is a call of load_model on its own, with the path in last'.body
LoadModelCalled == reloads' # reloads

\* the step is the startup event, which calls load_model on the default path
StartupRan == started' # started

\* C22: load_model called with a path that does not exist raises
\* FileNotFoundError and leaves model, model_name and scaler as they were.
C22_MissingFileKeepsState ==
    /\ [][(LoadModelCalled /\ ~Exists(disk, last'.body[1]))
            => /\ last'.resp.raised = "FileNotFoundError"
               /\ UNCHANGED <<model, model_name, scaler>>]_vars
    /\ [][(StartupRan /\ ~Exists(disk, DefaultModelPath))
            => UNCHANGED <<model, model_name, scaler>>]_vars

\* load_model on a missing file after a model and its scaler were loaded: both
\* are still held
C22_Witness ==
    /\ last.op = "load_model"
    /\ ~Exists(disk, last.body[1])
    /\ last.resp.raised = "FileNotFoundError"
    /\ model # None
    /\ scaler # None
    /\ model_name = Some("logistic_regression")

\* the step calls load_model, on its own or from the startup event, with the
\* path in last'.body
LoadStep == LoadModelCalled \/ StartupRan

\* <stem>_scaler.pkl in the directory of the model file
Companion(model_file) ==
    [parent |-> model_file.parent, stem |-> model_file.stem \o "_scaler",
     suffix |-> ".pkl"]

\* the file at path holds a pickle
Readable(path) == Exists(disk, path) /\ Content(disk, path).kind = "pickle"

\* C23: load_model on an existing (readable) model file returns without raising
\* whether or not <stem>_scaler.pkl exists next to it (and is readable);
\* afterwards model is the file's content, model_name is the file stem, and
\* scaler is the companion's content if it exists and None otherwise, whatever
\* scaler was held before.
C23_CompanionOptional ==
    [][(LoadStep /\ Readable(last'.body[1])
          /\ (Exists(disk, Companion(last'.body[1]))
                => Readable(Companion(last'.body[1]))))
        => /\ last'.resp.raised = ""
           /\ model' = Some(Content(disk, last'.body[1]).obj)
           /\ model_name' = Some(last'.body[1].stem)
           /\ scaler' = IF Exists(disk, Companion(last'.body[1]))
                        THEN Some(Content(disk, Companion(last'.body[1])).obj)
                        ELSE None]_vars

\* the random forest, which has no companion, loaded after the startup event
\* loaded the default model with its scaler: no scaler is held
C23_Witness ==
    /\ last.op = "load_model"
    /\ last.body[1] = Pkl("artifacts", "random_forest")
    /\ last.resp.raised = ""
    /\ DefaultArtifacts \subseteq disk
    /\ model_name = Some("random_forest")
    /\ model = Some(RandomForestClassifier)
    /\ scaler = None

\* the model files the held model and model_name can have been read from
HeldModelFiles ==
    {p \in ModelPaths :
        /\ Readable(p)
        /\ model = Some(Content(disk, p).obj)
        /\ model_name = Some(p.stem)}

\* model_name is the stem of a file holding the model currently held
NameMatchesModel ==
    IF model = None THEN model_name = None ELSE HeldModelFiles # {}

\* scaler is None or the content of the held model's own companion file
ScalerMatchesModel ==
    \/ scaler = None
    \/ \E p \in HeldModelFiles :
          /\ Readable(Companion(p))
          /\ scaler = Some(Content(disk, Companion(p)).obj)

\* C28: after any sequence of load_model calls, successful or failing at any
\* step, model_name is the file stem of the model currently held and scaler is
\* either None or the content of that model's own companion file, never the
\* scaler of a previously loaded model.
C28_ConsistentPair ==
    NameMatchesModel /\ ScalerMatchesModel

\* the part of C28 the code keeps: model_name is always the stem of the file the
\* held model was read from
C28_NameOfHeldModel ==
    NameMatchesModel

\* a model whose companion does not unpickle is held next to the scaler of the
\* model loaded before it
C28_StaleScaler ==
    /\ model_name = Some("half_written")
    /\ scaler = Some(FittedScaler)

\* C29: in every reachable state the model_loaded gauge is 1 exactly when the
\* held model is not None, that is, exactly when /health reports model_loaded
\* true.
C29_GaugeAgrees ==
    /\ (model_loaded = 1) = (model # None)
    /\ last.op = "/health" => last.resp.model_loaded = (model_loaded = 1)

\* load_model on a missing file after a successful load: the model is still
\* held and the gauge is 0
C29_GaugeClearedModelHeld ==
    /\ last.op = "load_model"
    /\ last.resp.raised = "FileNotFoundError"
    /\ model # None
    /\ scaler # None
    /\ model_loaded = 0

\* the last operation was a call of save_final_model with save_pickle=True
SavedWithPickle == last.op = "save_final_model" /\ last.body.save_pickle

\* <output_dir>/<safe_name>.pkl of the last save_final_model call
SavedModelPath == Pkl(last.body.output_dir, SafeName(last.body.model_name))

\* C24: save_final_model called with save_pickle=True and a scaler writes both
\* <safe_name>.pkl and <safe_name>_scaler.pkl into output_dir, so that load_model
\* on the model file finds the companion; called with scaler=None it writes the
\* model file and no _scaler file.
C24_SaveWritesCompanion ==
    /\ (SavedWithPickle /\ last.body.scaler.given /\ last.body.scaler.value # None) =>
          /\ Readable(SavedModelPath)
          /\ Readable(Companion(SavedModelPath))
          /\ load_model(disk, SavedModelPath).scaler = last.body.scaler.value
    /\ (SavedWithPickle /\ last.body.scaler.given /\ last.body.scaler.value = None) =>
          /\ Readable(SavedModelPath)
          /\ ~Exists(disk, Companion(SavedModelPath))

\* the part of C24 the code keeps: called with save_pickle=True and without the
\* scaler keyword, save_final_model writes the model to <safe_name>.pkl in
\* output_dir, safe_name being the name lower-cased with "_" for " ", and writes
\* no companion
C24_ModelFileOnly ==
    (SavedWithPickle /\ ~last.body.scaler.given) =>
        /\ last.resp.raised = ""
        /\ Readable(SavedModelPath)
        /\ Content(disk, SavedModelPath).obj = last.body.model
        /\ ~Exists(disk, Companion(SavedModelPath))
        /\ SavedModelPath.stem \in {"logistic_regression", "test_model"}

\* "Logistic Regression" saved into artifacts, where the startup event looks
\* for it: the model is loaded, without a scaler
C24_SavedThenLoaded ==
    /\ last.op = "startup_event"
    /\ Readable(DefaultModelPath)
    /\ model = Some(LogisticRegression)
    /\ scaler = None


\* the last operation was a call of clean_and_preprocess_heart_data
CleanCalled == last.op = "clean_and_preprocess_heart_data"

\* the rows of a frame without a missing value or a "?" marker, in their order
CompleteRows(frame) ==
    SelectSeq(frame.rows,
              LAMBDA row : \A c \in DOMAIN row : row[c] # NaN /\ row[c] # QuestionMark)

\* a cell after cleaning: the same value, a numeric string possibly read as a number
SameValue(before, after) ==
    /\ after.v = before.v
    /\ \/ after.t = before.t
       \/ before.t = "numstr" /\ after.t = "num"

\* C25: clean_and_preprocess_heart_data returns exactly the input rows that have
\* no missing value (a "?" marker counts as missing), in their original order,
\* with no missing value left and with target 1 when the original target is
\* greater than 0 and 0 otherwise; without a target column it raises KeyError.
C25_CleanKeepsCompleteRows ==
    CleanCalled =>
        LET kept == CompleteRows(last.body)
            out == last.resp
        IN  IF "target" \notin ColumnSet(last.body)
            THEN out.raised = "KeyError"
            ELSE /\ out.raised = ""
                 /\ out.value.columns = last.body.columns
                 /\ Len(out.value.rows) = Len(kept)
                 /\ CompleteRows(out.value) = out.value.rows
                 /\ \A i \in 1..Len(kept) :
                        /\ out.value.rows[i]["target"]
                              = Num(IF kept[i]["target"].v > 0 THEN 1 ELSE 0)
                        /\ \A c \in DOMAIN kept[i] \ {"target"} :
                              SameValue(kept[i][c], out.value.rows[i][c])

\* a frame whose first row has a "?" and whose second row is complete with target
\* 2 was cleaned: one row is left, with target 1
C25_Witness ==
    /\ CleanCalled
    /\ last.resp.raised = ""
    /\ Len(last.body.rows) = 2
    /\ \E c \in DOMAIN last.body.rows[1] : last.body.rows[1][c] = QuestionMark
    /\ last.body.rows[2]["target"] = Num(2)
    /\ Len(df.rows) = 1
    /\ df.rows[1]["target"] = Num(1)

\* a frame with rows and no target column was cleaned: KeyError
C25_WitnessNoTarget ==
    /\ CleanCalled
    /\ last.resp.raised = "KeyError"
    /\ Len(last.body.rows) > 0

\* the last operation was a call of validate_heart_data
ValidateCalled == last.op = "validate_heart_data"

\* a warning of the kind is in the results
Warned(results, kind) ==
    \E i \in 1..Len(results.warnings) : results.warnings[i].kind = kind

\* a cell of the column is outside [lo, hi]
SomeOutside(frame, col, lo, hi) ==
    /\ col \in ColumnSet(frame)
    /\ \E i \in 1..Len(frame.rows) :
          frame.rows[i][col].t = "num"
          /\ (frame.rows[i][col].v < lo \/ frame.rows[i][col].v > hi)

\* C26: validate_heart_data reports is_valid = False with a non-empty errors list
\* exactly when one of the 14 expected columns is missing; extra columns, missing
\* values, out-of-range values and IQR outliers add warnings and leave is_valid.
C26_InvalidIffColumnMissing ==
    ValidateCalled =>
        LET frame == last.body
            results == last.resp.value
            missing == \E i \in 1..Len(ExpectedColumns) :
                          ExpectedColumns[i] \notin ColumnSet(frame)
        IN  /\ Len(ExpectedColumns) = 14
            /\ results.is_valid = ~missing
            /\ (results.errors # <<>>) = missing
            /\ ("id" \in ColumnSet(frame)) => Warned(results, "extra_columns")
            /\ (\E i \in 1..Len(frame.rows) : HasNa(frame.rows[i]))
                  => Warned(results, "missing_values")
            /\ (SomeOutside(frame, "age", 0, 120) \/ SomeOutside(frame, "chol", 100, 600))
                  => Warned(results, "out_of_range")

\* a frame with every expected column, an extra column, a missing age and a
\* cholesterol that is out of range and an outlier was validated: four warnings,
\* still valid
C26_Witness ==
    /\ ValidateCalled
    /\ last.resp.value.is_valid
    /\ last.resp.value.errors = <<>>
    /\ Warned(last.resp.value, "extra_columns")
    /\ Warned(last.resp.value, "missing_values")
    /\ Warned(last.resp.value, "out_of_range")
    /\ Warned(last.resp.value, "outliers")

\* a frame without the ca column and nothing else to report was validated
C26_WitnessMissingColumn ==
    /\ ValidateCalled
    /\ "ca" \notin ColumnSet(last.body)
    /\ ~last.resp.value.is_valid
    /\ Len(last.resp.value.errors) = 1
    /\ last.resp.value.warnings = <<>>

\* a step that is a call of prepare_ml_features
PrepareCalled == last'.op = "prepare_ml_features"

\* the scaler objects alive before the step
Alive == FittedEarlier \cup Held

\* C27: prepare_ml_features fits a new scaler only when none is given: with
\* scaler=None it returns a freshly fitted scaler; with an existing scaler it
\* applies that scaler without refitting and returns the very same object, its
\* feature columns being the numeric columns of the frame as at fit time; in both
\* cases X has no target column and y is the target column; a frame without
\* target raises KeyError.
C27_FitsOnlyWithoutScaler ==
    [][PrepareCalled =>
        LET frame == last'.body.df
            given == last'.body.scaler
            out == last'.resp
            features == NumericCols(Drop(frame, "target"))
        IN  IF "target" \notin ColumnSet(frame)
            THEN out.raised = "KeyError"
            ELSE /\ out.raised \in {"", "ValueError"}
                 /\ (given = None /\ frame.rows # <<>> /\ features # <<>>)
                        => out.raised = ""
                 /\ out.raised = "" =>
                        /\ "target" \notin ColumnSet(out.value.X)
                        /\ Len(out.value.X.rows) = Len(frame.rows)
                        /\ out.value.y = [i \in 1..Len(frame.rows) |->
                                             frame.rows[i]["target"]]
                        /\ out.value.scaler.feature_names_in_ = features
                        /\ IF given = None
                           THEN /\ \A s \in Alive : s.id # out.value.scaler.id
                                /\ \A k \in 1..Len(features) :
                                      out.value.scaler.mean_[features[k]]
                                        = Mean(ColumnValues(frame, features[k]))
                           ELSE /\ out.value.scaler = Val(given)
                                /\ Val(given) \in Alive]_vars

\* the call of the test: a frame prepared with the scaler an earlier call fitted
\* on a frame with the same columns; the same object comes back
C27_Witness ==
    /\ last.op = "prepare_ml_features"
    /\ last.resp.raised = ""
    /\ last.body.scaler # None
    /\ Val(last.body.scaler) \notin FittedEarlier
    /\ last.resp.value.scaler = Val(last.body.scaler)
    /\ Len(last.body.df.rows) = 2

\* a frame with rows prepared without a scaler: a fitted scaler comes back
C27_WitnessFitted ==
    /\ last.op = "prepare_ml_features"
    /\ last.body.scaler = None
    /\ last.resp.raised = ""
    /\ Len(last.body.df.rows) = TypicalRows + 1
    /\ "age" \in DOMAIN last.resp.value.scaler.mean_
    /\ last.resp.value.scaler.mean_["age"] = 60

\* a scaler fitted on other columns than the frame's: transform raises ValueError
C27_WitnessOtherColumns ==
    /\ last.op = "prepare_ml_features"
    /\ last.body.scaler # None
    /\ "target" \in ColumnSet(last.body.df)
    /\ last.body.df.rows # <<>>
    /\ last.resp.raised = "ValueError"

\* a frame without target: KeyError
C27_WitnessNoTarget ==
    /\ last.op = "prepare_ml_features"
    /\ last.resp.raised = "KeyError"

\* a frame with a categorical ca column prepared: X has an indicator column and
\* the scaler is fitted on age alone
C27_WitnessCategorical ==
    /\ last.op = "prepare_ml_features"
    /\ last.resp.raised = ""
    /\ last.resp.value.X.columns = <<"age", "ca_abc">>
    /\ last.resp.value.scaler.feature_names_in_ = <<"age">>

\* the requests other than /metrics that entered the middleware and have not left
Tracked == {r \in in_flight : r.path # "/metrics"}

\* C30: under any interleaving of concurrent requests the active_requests gauge
\* is the number of requests other than /metrics between entry to and exit from
\* the middleware: never negative, and 0 when no request is in flight.
C30_GaugeCountsInFlight ==
    /\ active_requests = Cardinality(Tracked)
    /\ active_requests >= 0
    /\ in_flight = {} => active_requests = 0

\* C30, the steps: a request that incremented the gauge decrements it by one when
\* it leaves, whether call_next returned or raised, and a /metrics request never
\* moves it.
C30_DecrementedOnExit ==
    [][\A r \in in_flight :
          r \notin in_flight' =>
              active_requests' = active_requests - (IF r.path = "/metrics" THEN 0 ELSE 1)]_vars

\* two requests and a /metrics request overlap: the gauge reads 2 with three
\* requests in flight
C30_Witness ==
    /\ Cardinality(in_flight) = 3
    /\ \E r \in in_flight : r.path = "/metrics"
    /\ active_requests = 2

\* a request left by an exception while another was in flight, and that one has
\* left too: the gauge is back at 0
C30_WitnessRaised ==
    /\ last.resp = [raised |-> "RuntimeError"]
    /\ last.op # "/metrics"
    /\ served >= 2
    /\ in_flight = {}
    /\ active_requests = 0

=============================================================================
